---- MODULE Spec2Model ----
(***************************************************************************)
(* Pending-item staging and itinerary save of the Search page              *)
(* (src/frontend/src/pages/Search.tsx).                                    *)
(*                                                                         *)
(* The specifications of the module:                                       *)
(*   SpecStore       the Pending Item Store functions called one at a time *)
(*                   on any content of the local-storage key;              *)
(*   SpecPayload     the save payload built from a staged sequence;        *)
(*   Spec            the page: mount, add modal, remove, clear, saveAll    *)
(*                   and the responses of the network calls they await;    *)
(*   SpecLive        Spec with every request of a saveAll answered in the  *)
(*                   end;                                                  *)
(*   SpecPage        the page driven through its own buttons only;         *)
(*   SpecSearch      the search form alone;                                *)
(*   SpecAttractions attractions searches answered with every short list;  *)
(*   SpecNormalize   normalizeAttraction applied to a record;              *)
(*   SpecVersions    saveAll of Search.tsx and of the older page kept in   *)
(*                   Home.tsx, run on the same state and responses.        *)
(***************************************************************************)
EXTENDS Integers, Sequences, FiniteSets, TLC

VARIABLES
    storage,             \* window.localStorage: key -> null or a string
    mounted,             \* the mount effect has run
    route,               \* the route shown; navigate() changes it
    searchType,          \* React state of Search, under the names of the source
    itineraries,
    showAddModal,
    selectedItem,
    selectedItineraryId,
    adding,
    pendingItems,
    currentItinerary,
    error,
    successMessage,
    inflight,            \* the handlers suspended at an await, in the order they started
    last,                \* the handler that returned (or the saveAll that created
                         \* its itinerary) in the last step, if one did
    clicks,              \* how many times the user has acted on the page
    query,               \* React state of the search form and its results
    checkIn,
    checkOut,
    results,
    loading,
    call,                \* SpecStore: the last store function called and what it did
    hist,                \* SpecStore: the items added since the store was last empty
    staged,              \* SpecPayload: the staged sequence
    payload,             \* SpecPayload: the payload built from it
    home,                \* SpecVersions: the older page version (Home.tsx) run beside
    norm                 \* SpecNormalize: a record and what normalizeAttraction made of it

reactState == <<searchType, itineraries, showAddModal, selectedItem, selectedItineraryId,
                adding, pendingItems, currentItinerary, error, successMessage>>
pageVars == <<mounted, route, reactState, inflight, last, clicks>>
storeVars == <<call, hist>>
payloadVars == <<staged, payload>>
searchVars == <<query, checkIn, checkOut, results, loading>>
auxVars == <<home, norm>>
vars == <<storage, pageVars, storeVars, payloadVars, searchVars, auxVars>>

(***************************************************************************)
(* JavaScript values.  A scalar is tagged by the one field it has; an      *)
(* object is a function from its own keys to values; an array is Arr of a  *)
(* sequence.                                                               *)
(***************************************************************************)
undefined == [undefined |-> TRUE]
null == [null |-> TRUE]
Num(n) == [num |-> n]
Str(s) == [str |-> s]
Arr(s) == [arr |-> s]

\* The values the operators ||, ?: and ! treat as false.
Falsy == {undefined, null, Num(0), Str("")}
Truthy(v) == v \notin Falsy

\* a || b
Or(a, b) == IF Truthy(a) THEN a ELSE b

\* o.k : undefined when o has no own key k
Get(o, k) == IF k \in DOMAIN o THEN o[k] ELSE undefined

\* o?.k
GetOpt(o, k) == IF Truthy(o) THEN Get(o, k) ELSE undefined

IsArray(v) == "arr" \in DOMAIN v

\* The outcome of a call that may throw.
Return(v) == [raised |-> FALSE, value |-> v]
Throw(e) == [raised |-> TRUE, value |-> Str(e)]

(***************************************************************************)
(* JSON.  The text JSON.stringify produces is [json |-> v] for the value v *)
(* it denotes: keys whose value is undefined are not written.  Any other   *)
(* string is not JSON and JSON.parse throws on it.                         *)
(***************************************************************************)
DropUndefined(o) == [k \in {j \in DOMAIN o : o[j] # undefined} |-> o[k]]

JSONstringifyObject(o) == [json |-> DropUndefined(o)]

JSONstringifyItems(items) ==
    [json |-> Arr([i \in 1..Len(items) |->
                     [items[i] EXCEPT !.data = DropUndefined(@)]])]

JSONparse(text) ==
    IF "json" \in DOMAIN text THEN Return(text.json) ELSE Throw("SyntaxError")

\* A string that is not JSON, and JSON texts that denote no array.
Garbage == Str("{not json")
NonArrayTexts == {[json |-> [count |-> Num(2)]], [json |-> Num(5)], [json |-> null]}

(***************************************************************************)
(* Pending items                                                           *)
(***************************************************************************)
ItemTypes == {"flight", "hotel", "attraction"}
Timestamps == {Str("2025-01-01T10:00:00.000Z")}

PendingItem(type, data, addedAt) == [type |-> type, data |-> data, addedAt |-> addedAt]

\* Sequences over S of length at most n.
RECURSIVE SeqUpTo(_, _)
SeqUpTo(S, n) ==
    IF n = 0 THEN {<<>>}
    ELSE LET shorter == SeqUpTo(S, n - 1)
         IN shorter \cup {Append(s, x) : s \in {t \in shorter : Len(t) = n - 1}, x \in S}

(***************************************************************************)
(* The Pending Item Store (Search.tsx 32-53, 445-450)                      *)
(***************************************************************************)
EmptyStorage ==
    [planit_pending_items |-> null,
     planit_current_itinerary |-> null,
     planit_saved_data |-> null]

\* getPendingItems(): stored ? JSON.parse(stored) : []
getPendingItems(st) ==
    LET stored == st.planit_pending_items
    IN IF Truthy(stored) THEN JSONparse(stored) ELSE Return(Arr(<<>>))

\* addPendingItem that skips an item the store already holds.
addPendingItemDedup(st, item) ==
    LET got == getPendingItems(st)
    IN IF got.raised THEN [raised |-> TRUE, storage |-> st]
       ELSE IF ~IsArray(got.value) THEN [raised |-> TRUE, storage |-> st]
       ELSE IF \E i \in 1..Len(got.value.arr) :
                   got.value.arr[i] = [item EXCEPT !.data = DropUndefined(@)]
            THEN [raised |-> FALSE, storage |-> st]
       ELSE [raised |-> FALSE,
             storage |-> [st EXCEPT !.planit_pending_items =
                              JSONstringifyItems(Append(got.value.arr, item))]]

\* addPendingItem that stores the new item in place of the list.
addPendingItemReplacing(st, item) ==
    LET got == getPendingItems(st)
    IN IF got.raised THEN [raised |-> TRUE, storage |-> st]
       ELSE IF ~IsArray(got.value) THEN [raised |-> TRUE, storage |-> st]
       ELSE [raised |-> FALSE,
             storage |-> [st EXCEPT !.planit_pending_items =
                              JSONstringifyItems(<<item>>)]]

\* addPendingItem(item): items.push(item) throws when items is no array.
addPendingItem(st, item) ==
    LET got == getPendingItems(st)
    IN IF got.raised THEN [raised |-> TRUE, storage |-> st]
       ELSE IF ~IsArray(got.value) THEN [raised |-> TRUE, storage |-> st]
       ELSE [raised |-> FALSE,
             storage |-> [st EXCEPT !.planit_pending_items =
                              JSONstringifyItems(Append(got.value.arr, item))]]

\* clearPendingItems that removes another key.
clearPendingItemsWrongKey(st) == [st EXCEPT !.planit_current_itinerary = null]

\* clearPendingItems(): localStorage.removeItem(STORAGE_KEY)
clearPendingItems(st) == [st EXCEPT !.planit_pending_items = null]

\* Array.prototype.splice(index, 1): a negative index counts from the end,
\* and the start is clamped to [0, length].  The start as a 0-based position.
spliceStart(len, index) ==
    IF index < 0 THEN (IF len + index < 0 THEN 0 ELSE len + index)
    ELSE (IF index > len THEN len ELSE index)

splice(items, index) ==
    LET start == spliceStart(Len(items), index)
    IN IF start >= Len(items) THEN items
       ELSE SubSeq(items, 1, start) \o SubSeq(items, start + 2, Len(items))

\* removePendingItem that hands the list as it was read to setPendingItems.
removePendingItemStoreListAsRead(st, index) ==
    LET got == getPendingItems(st)
    IN IF got.raised THEN [raised |-> TRUE, storage |-> st, items |-> <<>>]
       ELSE IF ~IsArray(got.value) THEN [raised |-> TRUE, storage |-> st, items |-> <<>>]
       ELSE LET items == splice(got.value.arr, index)
            IN [raised |-> FALSE,
                storage |-> [st EXCEPT !.planit_pending_items = JSONstringifyItems(items)],
                items |-> got.value.arr]

\* The storage part of removePendingItem(index); items is what it then
\* hands to setPendingItems.
removePendingItemStore(st, index) ==
    LET got == getPendingItems(st)
    IN IF got.raised THEN [raised |-> TRUE, storage |-> st, items |-> <<>>]
       ELSE IF ~IsArray(got.value) THEN [raised |-> TRUE, storage |-> st, items |-> <<>>]
       ELSE LET items == splice(got.value.arr, index)
            IN [raised |-> FALSE,
                storage |-> [st EXCEPT !.planit_pending_items = JSONstringifyItems(items)],
                items |-> items]

(***************************************************************************)
(* The Search component as constructed: the useState initial values        *)
(* (Search.tsx 57-84), nothing awaited, nothing returned yet.              *)
(***************************************************************************)
NoStep == [op |-> "none", outcome |-> "none", inv |-> null]
Step(op, outcome, inv) == [op |-> op, outcome |-> outcome, inv |-> inv]

SearchRoute == [path |-> "/search"]
ItineraryRoute(id) == [path |-> "/itineraries/:id", id |-> id]

Constructed ==
    /\ mounted = FALSE
    /\ route = SearchRoute
    /\ searchType = "attractions"
    /\ itineraries = <<>>
    /\ showAddModal = FALSE
    /\ selectedItem = null
    /\ selectedItineraryId = null
    /\ adding = FALSE
    /\ pendingItems = <<>>
    /\ currentItinerary = null
    /\ error = Str("")
    /\ successMessage = Str("")
    /\ inflight = <<>>
    /\ last = NoStep
    /\ clicks = 0
    /\ query = Str("")
    /\ checkIn = Str("")
    /\ checkOut = Str("")
    /\ results = <<>>
    /\ loading = FALSE

(***************************************************************************)
(* SpecStore: list, add, removeAt and clear called one at a time.          *)
(***************************************************************************)
MaxStored == 2       \* longest stored sequence
MaxIndex == 3        \* removeAt is tried for every index in -MaxIndex..MaxIndex

\* Result records the search page stages.  The third is what the expanded
\* attraction card builds (Search.tsx 667) for an attraction without a rate:
\* its price key is there and holds undefined.
StoreItems ==
    UNION {{PendingItem("hotel", [name |-> Str("Hotel A"), price_per_night |-> Num(120)], t),
            PendingItem("flight", [id |-> Str("F1"), price |-> Num(300)], t),
            PendingItem("attraction", [name |-> Str("Museum"), price |-> undefined], t)}
           : t \in Timestamps}

\* What JSON keeps of an item.
JSONimage(item) == [item EXCEPT !.data = DropUndefined(@)]
JSONimages(items) == [i \in 1..Len(items) |-> JSONimage(items[i])]

RawPending ==
    {null, Str(""), Garbage} \cup NonArrayTexts
        \cup {JSONstringifyItems(s) : s \in SeqUpTo(StoreItems, MaxStored)}

NoCall == [op |-> "none"]
Tracked(items) == [tracking |-> TRUE, items |-> items]
Untracked == [tracking |-> FALSE, items |-> <<>>]

\* The stored sequence, for a storage that holds one.
HoldsSequence(st) ==
    LET got == getPendingItems(st) IN ~got.raised /\ IsArray(got.value)
Stored(st) == getPendingItems(st).value.arr

InitStore ==
    /\ \E raw \in RawPending :
          storage = [EmptyStorage EXCEPT !.planit_pending_items = raw]
    /\ call = NoCall
    /\ hist = IF HoldsSequence(storage) /\ Stored(storage) = <<>>
              THEN Tracked(<<>>) ELSE Untracked
    /\ staged = <<>>
    /\ payload = null
    /\ home = null
    /\ norm = null
    /\ Constructed

StoreList ==
    LET got == getPendingItems(storage)
    IN /\ call' = [op |-> "list", before |-> storage,
                   raised |-> got.raised, value |-> got.value]
       /\ UNCHANGED <<storage, hist, staged, payload, pageVars, searchVars, auxVars>>

StoreAdd(item) ==
    LET r == addPendingItem(storage, item)
    IN /\ HoldsSequence(storage) => Len(Stored(storage)) < MaxStored
       /\ storage' = r.storage
       /\ call' = [op |-> "add", arg |-> item, before |-> storage, raised |-> r.raised]
       /\ hist' = IF hist.tracking /\ ~r.raised
                  THEN Tracked(Append(hist.items, item)) ELSE hist
       /\ UNCHANGED <<staged, payload, pageVars, searchVars, auxVars>>

StoreRemoveAt(index) ==
    LET r == removePendingItemStore(storage, index)
    IN /\ storage' = r.storage
       /\ call' = [op |-> "removeAt", arg |-> index, before |-> storage,
                   raised |-> r.raised]
       /\ hist' = IF r.raised \/ r.items = Stored(storage) THEN hist
                  ELSE IF r.items = <<>> THEN Tracked(<<>>) ELSE Untracked
       /\ UNCHANGED <<staged, payload, pageVars, searchVars, auxVars>>

StoreClear ==
    /\ storage' = clearPendingItems(storage)
    /\ call' = [op |-> "clear", before |-> storage, raised |-> FALSE]
    /\ hist' = Tracked(<<>>)
    /\ UNCHANGED <<staged, payload, pageVars, searchVars, auxVars>>

NextStore ==
    \/ StoreList
    \/ \E item \in StoreItems : StoreAdd(item)
    \/ \E index \in -MaxIndex..MaxIndex : StoreRemoveAt(index)
    \/ StoreClear

SpecStore == InitStore /\ [][NextStore]_vars

(***************************************************************************)
(* Claims on the store functions (checked under SpecStore)                 *)
(***************************************************************************)
OutOfRange(index, len) == index < 0 \/ index >= len

\* C5: removeAt(i) for every i outside [0, length), negative or too large,
\* leaves the stored sequence unchanged and does not raise.
C5_RemoveAtOutOfRangeIsNoOp ==
    (/\ call.op = "removeAt"
     /\ HoldsSequence(call.before)
     /\ OutOfRange(call.arg, Len(Stored(call.before))))
    => (/\ ~call.raised
        /\ HoldsSequence(storage)
        /\ Stored(storage) = Stored(call.before))

\* C6: list() never fails: on a missing key, a corrupt value or a value that
\* is no sequence it returns the empty sequence, and a following add() succeeds.
NotASequence == {null, Garbage} \cup NonArrayTexts

C6_ListNeverFails ==
    /\ (call.op = "list" /\ call.before.planit_pending_items \in NotASequence)
          => (~call.raised /\ call.value = Arr(<<>>))
    /\ (call.op = "add" /\ call.before.planit_pending_items \in NotASequence)
          => ~call.raised

\* C7: starting from an empty store, list() returns exactly the items added,
\* in insertion order and without deduplication (each as JSON keeps it).
C7_ListIsTheAddsInOrder ==
    hist.tracking => getPendingItems(storage) = Return(Arr(JSONimages(hist.items)))

C7_Witness ==
    /\ call.op = "add"
    /\ hist.tracking
    /\ Len(hist.items) >= 2
    /\ hist.items[1] = hist.items[2]

\* C8: from any store content, clear() followed by list() yields the empty
\* sequence.
C8_ClearThenListIsEmpty ==
    call.op = "clear" => getPendingItems(storage) = Return(Arr(<<>>))

C8_Witness ==
    /\ call.op = "clear"
    /\ HoldsSequence(call.before)
    /\ Len(Stored(call.before)) >= 2

(***************************************************************************)
(* The save payload (Search.tsx 409-415)                                   *)
(***************************************************************************)
IsFlight(item) == item.type = "flight"
IsNotFlight(item) == item.type # "flight"

\* item => item.data
itemData(item) == item.data

\* The projection that reads the nightly price before the generic one.
projectItemNightlyFirst(item) ==
    [name |-> Or(Get(item.data, "name"), Get(item.data, "title")),
     price |-> Or(Or(Get(item.data, "price_per_night"), Get(item.data, "price")), Num(0)),
     type |-> Str(item.type)]

\* item => ({ name: item.data.name || item.data.title,
\*            price: item.data.price || item.data.price_per_night || 0,
\*            type: item.type })
projectItem(item) ==
    [name |-> Or(Get(item.data, "name"), Get(item.data, "title")),
     price |-> Or(Or(Get(item.data, "price"), Get(item.data, "price_per_night")), Num(0)),
     type |-> Str(item.type)]

\* pendingItems.filter(item => item.type === 'flight').map(item => item.data)
payloadFlights(pending) ==
    LET kept == SelectSeq(pending, IsFlight)
    IN [i \in 1..Len(kept) |-> itemData(kept[i])]

\* A filter that keeps the hotels only.
IsHotel(item) == item.type = "hotel"
payloadItemsHotelsOnly(pending) ==
    LET kept == SelectSeq(pending, IsHotel)
    IN [i \in 1..Len(kept) |-> projectItem(kept[i])]

\* pendingItems.filter(item => item.type !== 'flight').map(item => ({...}))
payloadItems(pending) ==
    LET kept == SelectSeq(pending, IsNotFlight)
    IN [i \in 1..Len(kept) |-> projectItem(kept[i])]

\* { flights, items }
savePayload(pending) ==
    [flights |-> payloadFlights(pending), items |-> payloadItems(pending)]

(***************************************************************************)
(* SpecPayload: a sequence is staged item by item and the payload built.   *)
(***************************************************************************)
MaxStaged == 2       \* longest staged sequence

\* data records over every combination of the fields the projection reads
FieldChoices(key, values) == {<<>>} \cup {[k \in {key} |-> v] : v \in values}

Merge(f, g) == [k \in DOMAIN f \cup DOMAIN g |-> IF k \in DOMAIN f THEN f[k] ELSE g[k]]

HotelData ==
    {Merge(Merge(n, t), Merge(p, q)) :
        n \in FieldChoices("name", {Str(""), Str("Hotel A")}),
        t \in FieldChoices("title", {Str("Grand")}),
        p \in FieldChoices("price", {Num(0), Num(50)}),
        q \in FieldChoices("price_per_night", {Num(120)})}

PayloadItems ==
    UNION {{PendingItem("hotel", d, t) : d \in HotelData}
              \cup {PendingItem("attraction", [title |-> Str("Museum")], t),
                    PendingItem("attraction", [name |-> Str("Tower"), price |-> Num(50)], t),
                    PendingItem("flight", [id |-> Str("F1"), price |-> Num(300)], t),
                    PendingItem("flight", [id |-> Str("F2"), name |-> Str("Return")], t)}
           : t \in Timestamps}

InitPayload ==
    /\ storage = EmptyStorage
    /\ call = NoCall
    /\ hist = Untracked
    /\ staged = <<>>
    /\ payload = null
    /\ home = null
    /\ norm = null
    /\ Constructed

Stage(item) ==
    /\ Len(staged) < MaxStaged
    /\ staged' = Append(staged, item)
    /\ payload' = null
    /\ UNCHANGED <<storage, call, hist, pageVars, searchVars, auxVars>>

BuildPayload ==
    /\ payload = null
    /\ payload' = savePayload(staged)
    /\ UNCHANGED <<storage, call, hist, staged, pageVars, searchVars, auxVars>>

NextPayload ==
    \/ \E item \in PayloadItems : Stage(item)
    \/ BuildPayload

SpecPayload == InitPayload /\ [][NextPayload]_vars

(***************************************************************************)
(* Claims on the payload (checked under SpecPayload)                       *)
(***************************************************************************)
Built == payload # null

\* How many of the first k staged items are flights / are not.
FlightsUpTo(k) == Cardinality({i \in 1..k : staged[i].type = "flight"})
OthersUpTo(k) == Cardinality({i \in 1..k : staged[i].type # "flight"})

Present(v) == v \notin {undefined, null, Num(0), Str("")}

\* C9: the payload partitions the staged items by type: flights is the raw
\* data of the flight items in staged order, items has one {name, price, type}
\* entry per other item in staged order, name being the name field or, when
\* that is absent (or empty), the title field; nothing is dropped or duplicated.
C9_PayloadPartitionsByType ==
    Built =>
        /\ Len(payload.flights) + Len(payload.items) = Len(staged)
        /\ \A k \in 1..Len(staged) :
              IF staged[k].type = "flight"
              THEN /\ FlightsUpTo(k) \in 1..Len(payload.flights)
                   /\ payload.flights[FlightsUpTo(k)] = staged[k].data
              ELSE /\ OthersUpTo(k) \in 1..Len(payload.items)
                   /\ LET e == payload.items[OthersUpTo(k)]
                          d == staged[k].data
                      IN /\ DOMAIN e = {"name", "price", "type"}
                         /\ e.type = Str(staged[k].type)
                         /\ e.name = IF Present(Get(d, "name")) THEN d.name
                                     ELSE Get(d, "title")

C9_Witness ==
    /\ Built
    /\ Len(staged) = 2
    /\ staged[1].type = "attraction" /\ "name" \notin DOMAIN staged[1].data
    /\ staged[2].type = "flight"
    /\ Len(payload.items) = 1 /\ Len(payload.flights) = 1

\* C10 as stated: the price of a non-flight item is the nightly price when
\* present, otherwise the generic price, otherwise 0.
C10_NightlyPriceFirst ==
    Built =>
        \A k \in 1..Len(staged) :
            staged[k].type # "flight" =>
                LET d == staged[k].data
                IN payload.items[OthersUpTo(k)].price =
                       IF Present(Get(d, "price_per_night")) THEN d.price_per_night
                       ELSE IF Present(Get(d, "price")) THEN d.price
                       ELSE Num(0)

\* C10 amended: the price is the generic price when present and non-zero,
\* otherwise the nightly price when present and non-zero, otherwise 0.
C10_GenericPriceFirst ==
    Built =>
        \A k \in 1..Len(staged) :
            staged[k].type # "flight" =>
                LET d == staged[k].data
                IN payload.items[OthersUpTo(k)].price =
                       IF Present(Get(d, "price")) THEN d.price
                       ELSE IF Present(Get(d, "price_per_night")) THEN d.price_per_night
                       ELSE Num(0)

C10_Witness ==
    /\ Built
    /\ \E k \in 1..Len(staged) :
          /\ staged[k].type = "hotel"
          /\ Present(Get(staged[k].data, "price"))
          /\ Present(Get(staged[k].data, "price_per_night"))
          /\ payload.items[OthersUpTo(k)].price = staged[k].data.price

(***************************************************************************)
(* Spec: the Search page.                                                  *)
(*                                                                         *)
(* A handler runs to its first await in one step; the response of the call *)
(* it awaits is a later step that runs it to its next await or to its end. *)
(* A suspended handler keeps the state values of the render it was started *)
(* from (its closure).  The record a result card hands to openAddModal is   *)
(* any record of ResultItems: the cards build it from the results and from *)
(* the details fetched for them, which are not kept here.                  *)
(*                                                                         *)
(* The buttons are taken where the page renders and enables them.          *)
(* handleSaveAllToItinerary is the saveAll operation of the reconciler: it *)
(* is called in any state of the mounted page, with or without a selected  *)
(* itinerary and with or without pending items, and not only where the     *)
(* Save All button (566) and the banner button (471) would call it.        *)
(***************************************************************************)
MaxPending == 2      \* longest pending sequence
MaxInflight == 2     \* handlers suspended at an await at the same time
MaxClicks == 2       \* user actions after the page is mounted

\* What localStorage may hold when the page is opened: values the
\* application itself wrote.
PageItems ==
    UNION {{PendingItem("hotel", [name |-> Str("Hotel A"), price_per_night |-> Num(120)], t),
            PendingItem("flight", [id |-> Str("F1"), price |-> Num(300)], t)}
           : t \in Timestamps}

Drafts ==
    {[title |-> Str("Paris trip"), origin |-> Str("NYC"), destination |-> Str("Paris"),
      departure_date |-> Str("2025-06-01"), return_date |-> Str("2025-06-10")],
     [origin |-> Str("NYC"), destination |-> Str("Rome"),
      departure_date |-> Str("2025-06-01")],
     [itinerary_id |-> Num(1), title |-> Str("Paris trip"), destination |-> Str("Paris"),
      departure_date |-> Str("2025-06-01"), return_date |-> Str("2025-06-10")]}

\* The records of the result cards the user can pick: what the expanded
\* attraction card passes for an attraction without a rate (Search.tsx 667).
ResultItems ==
    {[xid |-> Str("X1"), name |-> Str("Louvre"), title |-> Str("Louvre"), price |-> undefined]}

\* What the server answers.
ItineraryLists ==
    {<<[id |-> Num(2)], [itinerary_id |-> Num(1), title |-> Str("Paris trip")]>>}
CreatedIds == {Num(7)}
SaveResponses == {[msg |-> Str("saved")], [itinerary_id |-> Num(99), msg |-> Str("saved")]}
ErrorMessages == {undefined, Str("Service unavailable")}

\* The sequences found staged when the page is opened: each of PageItems
\* at most once, in any order.
PagePending ==
    {items \in SeqUpTo(PageItems, MaxPending) :
        \A i, j \in 1..Len(items) : items[i] = items[j] => i = j}

Init ==
    /\ \E items \in PagePending, draft \in {null} \cup Drafts :
          storage = [planit_pending_items |->
                         IF items = <<>> THEN null ELSE JSONstringifyItems(items),
                     planit_current_itinerary |->
                         IF draft = null THEN null ELSE JSONstringifyObject(draft),
                     planit_saved_data |-> null]
    /\ Constructed
    /\ call = NoCall
    /\ hist = Untracked
    /\ staged = <<>>
    /\ payload = null
    /\ home = null
    /\ norm = null

RemoveIndex(s, i) == SubSeq(s, 1, i - 1) \o SubSeq(s, i + 1, Len(s))

InflightOf(op) == {i \in 1..Len(inflight) : inflight[i].op = op}

\* The page is shown, and the add modal (a full-screen overlay) does not
\* cover its buttons.
PageShown == mounted /\ route = SearchRoute
ModalShown == PageShown /\ showAddModal /\ Truthy(selectedItem)
Unobstructed == PageShown /\ ~ModalShown

\* One more user action.
Click == clicks < MaxClicks /\ clicks' = clicks + 1

\* The localStorage keys holding what is staged, and those a step changed.
StagedKeys == {"planit_pending_items", "planit_current_itinerary"}
ChangedKeys(st, st2) == {k \in StagedKeys : st[k] # st2[k]}

\* The suspended saveAll handlers note the staged keys that someone else
\* writes while they wait.
Interfere(fl, keys) ==
    [i \in 1..Len(fl) |->
        IF fl[i].op = "saveAll" THEN [fl[i] EXCEPT !.interfered = @ \cup keys]
        ELSE fl[i]]

\* loadItineraries(), up to its await: api.get('/itineraries')
loadItinerariesCall == [op |-> "loadItineraries"]

\* The mount effect (Search.tsx 86-115).  storedItinerary is the stored
\* string, so storedItinerary?.destination is undefined and, query being '',
\* no search is started; nor by the effect on searchType (117-127), which
\* in the first render sees currentItinerary = null and query = ''.
Mount ==
    /\ UNCHANGED clicks
    /\ ~mounted
    /\ mounted' = TRUE
    /\ inflight' = Append(inflight, loadItinerariesCall)
    /\ pendingItems' = getPendingItems(storage).value.arr
    /\ LET storedItinerary == storage.planit_current_itinerary
       IN IF Truthy(storedItinerary)
          THEN LET itinerary == JSONparse(storedItinerary).value
               IN /\ currentItinerary' = itinerary
                  /\ selectedItineraryId' = Get(itinerary, "itinerary_id")
                  /\ query' = (IF Truthy(Get(itinerary, "destination"))
                               THEN itinerary.destination ELSE query)
                  /\ checkIn' = (IF Truthy(Get(itinerary, "departure_date"))
                                 THEN itinerary.departure_date ELSE checkIn)
                  /\ checkOut' = (IF Truthy(Get(itinerary, "return_date"))
                                  THEN itinerary.return_date ELSE checkOut)
          ELSE UNCHANGED <<currentItinerary, selectedItineraryId, query, checkIn, checkOut>>
    /\ last' = NoStep
    /\ UNCHANGED <<storage, route, searchType, itineraries, showAddModal, selectedItem,
                   adding, error, successMessage, storeVars, payloadVars, auxVars,
                   results, loading>>

\* loadItineraries() after its await: setItineraries(response.data || []),
\* or the error is logged.
LoadItinerariesReturns(i) ==
    /\ UNCHANGED clicks
    /\ inflight[i].op = "loadItineraries"
    /\ inflight' = RemoveIndex(inflight, i)
    /\ \/ \E list \in ItineraryLists : itineraries' = list
       \/ UNCHANGED itineraries
    /\ last' = NoStep
    /\ UNCHANGED <<storage, mounted, route, searchType, showAddModal, selectedItem,
                   selectedItineraryId, adding, pendingItems, currentItinerary, error,
                   successMessage, storeVars, payloadVars, auxVars, searchVars>>

(***************************************************************************)
(* Search (Search.tsx 130-252).  expandedXid, attractionDetails and        *)
(* activitiesMap, which every search resets, are not kept.                 *)
(***************************************************************************)
\* isHotelLike(item)
isHotelLikeByIdOnly(item) ==
    IF ~Truthy(item) THEN FALSE
    ELSE Truthy(Or(Get(item, "hotel_id"), Get(item, "hotel_key")))

isHotelLike(item) ==
    IF ~Truthy(item) THEN FALSE
    ELSE Truthy(Or(Or(Or(Or(Get(item, "hotel_id"), Get(item, "hotel_key")),
                         Get(item, "price_per_night")),
                      Get(item, "rating")),
                   Get(item, "address")))

\* normalizeAttraction that looks at the image field before image_url.
normalizeAttractionImageFirst(item) ==
    IF ~Truthy(item) THEN item
    ELSE Merge([image_url |-> Or(Or(Or(Or(Get(item, "image"), Get(item, "image_url")),
                                       Get(item, "thumbnail")),
                                    Get(item, "photo")),
                                 null),
                xid |-> Or(Or(Get(item, "xid"), Get(item, "id")), Get(item, "xid"))],
               item)

\* normalizeAttraction(item): { ...item } with image_url and xid assigned.
normalizeAttraction(item) ==
    IF ~Truthy(item) THEN item
    ELSE Merge([image_url |-> Or(Or(Or(Or(Get(item, "image_url"), Get(item, "image")),
                                       Get(item, "thumbnail")),
                                    Get(item, "photo")),
                                 null),
                xid |-> Or(Or(Get(item, "xid"), Get(item, "id")), Get(item, "xid"))],
               item)

\* normalizeHotel(item): { ...item } with image, price_per_night and hotel_id
\* assigned.
normalizeHotel(item) ==
    IF ~Truthy(item) THEN item
    ELSE Merge([image |-> Or(Or(Or(Or(Get(item, "image"), Get(item, "thumbnail")),
                                   Get(item, "image_url")),
                                Get(item, "photo")),
                             null),
                price_per_night |-> Or(Or(Or(Get(item, "price_per_night"), Get(item, "price")),
                                          Get(item, "nightly_price")),
                                       null),
                hotel_id |-> Or(Or(Or(Get(item, "hotel_id"), Get(item, "id")),
                                   Get(item, "hotel_key")),
                                null)],
               item)

\* What the attractions branch of handleSearch does with response.data
\* (Search.tsx 201-221): the results it sets and the notice it sets, null
\* when it sets none.
HotelsNotice == Str("Attractions endpoint returned results that appear to be hotels; none shown.")
UnexpectedNotice == Str("No attractions found (server returned unexpected data).")

attractionsOutcomeNoticeWhenEmpty(data) ==
    IF Truthy(data) /\ Truthy(Get(data, "attractions")) /\ IsArray(Get(data, "attractions"))
    THEN LET raw == data.attractions.arr
             mapped == [i \in 1..Len(raw) |-> normalizeAttraction(raw[i])]
             normalized == SelectSeq(mapped, LAMBDA it : ~isHotelLike(it))
         IN [results |-> normalized,
             notice |-> IF Len(normalized) = 0 THEN HotelsNotice ELSE null]
    ELSE [results |-> <<>>, notice |-> UnexpectedNotice]

attractionsOutcome(data) ==
    IF Truthy(data) /\ Truthy(Get(data, "attractions")) /\ IsArray(Get(data, "attractions"))
    THEN LET raw == data.attractions.arr
             mapped == [i \in 1..Len(raw) |-> normalizeAttraction(raw[i])]
             normalized == SelectSeq(mapped, LAMBDA it : ~isHotelLike(it))
         IN [results |-> normalized,
             notice |-> IF Len(normalized) = 0 /\ Len(raw) > 0 THEN HotelsNotice ELSE null]
    ELSE [results |-> <<>>, notice |-> UnexpectedNotice]

\* What the hotels branch does with response.data (Search.tsx 239-241):
\* response.data.hotels throws on a missing body, and .map on a hotels
\* field that is no array.
hotelsOutcome(data) ==
    IF ~Truthy(data) THEN [raised |-> TRUE, results |-> <<>>]
    ELSE LET rawHotels == Or(Get(data, "hotels"), Arr(<<>>))
         IN IF ~IsArray(rawHotels) THEN [raised |-> TRUE, results |-> <<>>]
            ELSE [raised |-> FALSE,
                  results |-> [i \in 1..Len(rawHotels.arr) |-> normalizeHotel(rawHotels.arr[i])]]

\* query.trim() over the strings typed here.
Whitespace == {Str(" ")}
trim(text) == IF text \in Whitespace THEN Str("") ELSE text

\* What the onClick of a button passes to its handler.
ClickEvent == [event |-> "click"]

\* What a handler reads from the render it belongs to, and the state that
\* handleSearch writes before its await.
Closure ==
    [searchType |-> searchType, query |-> query, checkIn |-> checkIn, checkOut |-> checkOut]
SearchState ==
    [loading |-> loading, error |-> error, successMessage |-> successMessage,
     inflight |-> inflight]

searchCall(activeType, url, params) ==
    [op |-> "search", activeType |-> activeType,
     request |-> [method |-> "GET", url |-> url, params |-> params],
     overtaken |-> FALSE]

\* The suspended searches that started before the one at position i note
\* that it returned before them.
Overtake(fl, i) ==
    [j \in 1..Len(fl) |->
        IF j < i /\ fl[j].op = "search" THEN [fl[j] EXCEPT !.overtaken = TRUE]
        ELSE fl[j]]

\* handleSearch(forceType) up to its await (Search.tsx 184-235), run in the
\* render c on the state s; the state it leaves.
handleSearchRun(forceType, c, s) ==
    LET activeType == Or(forceType, Str(c.searchType))
        started == [s EXCEPT !.loading = TRUE, !.error = Str(""),
                             !.successMessage = Str("")]
    IN IF ~Truthy(trim(c.query)) THEN s
       ELSE IF activeType = Str("attractions")
       THEN [started EXCEPT !.inflight =
                Append(@, searchCall("attractions", "/search/attractions",
                                     [location |-> c.query]))]
       ELSE IF activeType = Str("hotels")
       THEN IF ~Truthy(c.checkIn) \/ ~Truthy(c.checkOut)
            THEN [started EXCEPT
                     !.error = Str("Check-in and check-out dates are required"),
                     !.loading = FALSE]
            ELSE [started EXCEPT !.inflight =
                     Append(@, searchCall("hotels", "/search/hotels",
                                          [location |-> c.query, check_in |-> c.checkIn,
                                           check_out |-> c.checkOut]))]
       ELSE [started EXCEPT !.loading = FALSE]

\* The state a run of handleSearch left becomes the state of the page.
ApplySearch(s) ==
    /\ Len(s.inflight) <= MaxInflight
    /\ loading' = s.loading
    /\ error' = s.error
    /\ successMessage' = s.successMessage
    /\ inflight' = s.inflight

\* switchSearchType(type) (Search.tsx 130-147) with what it sets off: the
\* effect on searchType (117-127), run in the next render when the type
\* changed, and then the callback of its setTimeout(0), run in the render of
\* the click.
switchSearchType(type) ==
    /\ Click
    /\ Unobstructed
    /\ results' = <<>>
    /\ searchType' = type
    /\ LET locationQuery == Or(GetOpt(currentItinerary, "destination"), query)
           effectSearches == type # searchType /\ type = "attractions"
                                 /\ Truthy(locationQuery)
           afterEffect ==
               IF effectSearches
               THEN handleSearchRun(undefined, [Closure EXCEPT !.searchType = type],
                                    SearchState)
               ELSE SearchState
           afterTimeout ==
               IF type = "attractions"
               THEN IF Truthy(locationQuery)
                    THEN handleSearchRun(Str("attractions"), Closure, afterEffect)
                    ELSE afterEffect
               ELSE IF Truthy(checkIn) /\ Truthy(checkOut) /\ Truthy(query)
                    THEN handleSearchRun(Str("hotels"), Closure, afterEffect)
                    ELSE afterEffect
       IN /\ ApplySearch(afterTimeout)
          /\ query' = (IF effectSearches THEN locationQuery ELSE query)
    /\ last' = NoStep
    /\ UNCHANGED <<storage, mounted, route, itineraries, showAddModal, selectedItem,
                   selectedItineraryId, adding, pendingItems, currentItinerary,
                   storeVars, payloadVars, auxVars, checkIn, checkOut>>

\* openAddModal that keeps a selection already made.
openAddModalKeepingSelection(item) ==
    /\ Click
    /\ Unobstructed
    /\ selectedItem' = item
    /\ showAddModal' = TRUE
    /\ error' = Str("")
    /\ IF Len(itineraries) > 0 /\ ~Truthy(selectedItineraryId)
       THEN LET firstItinerary == itineraries[1]
            IN selectedItineraryId' =
                   Or(Or(Get(firstItinerary, "itinerary_id"), Get(firstItinerary, "id")), null)
       ELSE UNCHANGED selectedItineraryId
    /\ last' = Step("openAddModal", "done", null)
    /\ UNCHANGED <<storage, mounted, route, searchType, itineraries, adding, pendingItems,
                   currentItinerary, successMessage, inflight, storeVars, payloadVars,
                   auxVars, searchVars>>

\* openAddModal(item) (Search.tsx 275-283)
openAddModal(item) ==
    /\ Click
    /\ Unobstructed
    /\ selectedItem' = item
    /\ showAddModal' = TRUE
    /\ error' = Str("")
    /\ IF Len(itineraries) > 0
       THEN LET firstItinerary == itineraries[1]
            IN selectedItineraryId' =
                   Or(Or(Get(firstItinerary, "itinerary_id"), Get(firstItinerary, "id")), null)
       ELSE UNCHANGED selectedItineraryId
    /\ last' = Step("openAddModal", "done", null)
    /\ UNCHANGED <<storage, mounted, route, searchType, itineraries, adding, pendingItems,
                   currentItinerary, successMessage, inflight, storeVars, payloadVars,
                   auxVars, searchVars>>

\* closeModal() (Search.tsx 285-289)
closeModal ==
    /\ Click
    /\ ModalShown
    /\ showAddModal' = FALSE
    /\ selectedItem' = null
    /\ error' = Str("")
    /\ last' = NoStep
    /\ UNCHANGED <<storage, mounted, route, searchType, itineraries, selectedItineraryId,
                   adding, pendingItems, currentItinerary, successMessage, inflight,
                   storeVars, payloadVars, auxVars, searchVars>>

\* The values the two itinerary <select>s offer (Search.tsx 554-565, 712-724).
SelectOptions ==
    {null} \cup {Or(Get(itineraries[i], "itinerary_id"), Get(itineraries[i], "id"))
                    : i \in 1..Len(itineraries)}

\* onChange of a <select>: setSelectedItineraryId(value ? parseInt(value) : null)
selectItinerary(value) ==
    /\ Click
    /\ \/ ModalShown /\ Len(itineraries) > 0
       \/ Unobstructed /\ Len(pendingItems) > 0
    /\ value \in SelectOptions
    /\ selectedItineraryId' = (IF Truthy(value) THEN value ELSE null)
    /\ last' = NoStep
    /\ UNCHANGED <<storage, mounted, route, searchType, itineraries, showAddModal,
                   selectedItem, adding, pendingItems, currentItinerary, error,
                   successMessage, inflight, storeVars, payloadVars, auxVars, searchVars>>

\* handleAddToLocalStorage() (Search.tsx 291-306) for the selectedItem and
\* searchType of the render it was called from; fl is what stays suspended.
handleAddToLocalStorage(item, type, fl) ==
    IF ~Truthy(item)
    THEN /\ inflight' = fl
         /\ UNCHANGED <<storage, pendingItems, successMessage, showAddModal,
                        selectedItem, error>>
    ELSE \E now \in Timestamps :
           LET itemType == IF type = "hotels" THEN "hotel" ELSE "attraction"
               added == addPendingItem(storage, PendingItem(itemType, item, now))
           IN /\ storage' = added.storage
              /\ pendingItems' = getPendingItems(added.storage).value.arr
              /\ successMessage' =
                    Str(IF itemType = "hotel" THEN "Hotel added to pending items!"
                        ELSE "Attraction added to pending items!")
              /\ showAddModal' = FALSE
              /\ selectedItem' = null
              /\ error' = Str("")
              /\ inflight' = Interfere(fl, {"planit_pending_items"})

\* The body of POST /itineraries/{id}/items (Search.tsx 323-334); the day,
\* time and duration fields of the form are passed through and not kept.
addItemRequest(item, type, id) ==
    [method |-> "POST", url |-> "/itineraries/:id/items", id |-> id,
     body |-> [item_type |-> Str(IF type = "attractions" THEN "attraction" ELSE "hotel"),
               item_name |-> Or(Or(Get(item, "name"), Get(item, "title")), Str("Unknown")),
               estimated_cost |->
                   Or(Or(Get(item, "price"), Get(item, "price_per_night")), Num(0))]]

\* Room for one more pending item, counting the adds still suspended.
RoomToAdd == Len(pendingItems) + Cardinality(InflightOf("add")) < MaxPending

\* handleAddToItinerary() up to its await (Search.tsx 308-334): the confirm
\* button of the add modal, disabled while adding.
handleAddToItinerary ==
    /\ Click
    /\ ModalShown
    /\ ~adding
    /\ RoomToAdd
    /\ IF ~Truthy(selectedItineraryId)
       THEN /\ handleAddToLocalStorage(selectedItem, searchType, inflight)
            /\ last' = Step("add", "staged", null)
            /\ UNCHANGED adding
       ELSE /\ Len(inflight) < MaxInflight
            /\ adding' = TRUE
            /\ error' = Str("")
            /\ inflight' = Append(inflight,
                   [op |-> "add", selectedItem |-> selectedItem, searchType |-> searchType,
                    request |-> addItemRequest(selectedItem, searchType, selectedItineraryId)])
            /\ last' = NoStep
            /\ UNCHANGED <<storage, pendingItems, successMessage, showAddModal, selectedItem>>
    /\ UNCHANGED <<mounted, route, searchType, itineraries, selectedItineraryId,
                   currentItinerary, storeVars, payloadVars, auxVars, searchVars>>

\* handleAddToItinerary() after its await, the post having succeeded
\* (Search.tsx 336-337, 344-346).
AddItemSucceeds(i) ==
    /\ UNCHANGED clicks
    /\ inflight[i].op = "add"
    /\ handleAddToLocalStorage(inflight[i].selectedItem, inflight[i].searchType,
                               RemoveIndex(inflight, i))
    /\ adding' = FALSE
    /\ last' = Step("add", "posted", inflight[i])
    /\ UNCHANGED <<mounted, route, searchType, itineraries, selectedItineraryId,
                   currentItinerary, storeVars, payloadVars, auxVars, searchVars>>

\* A failed post after which the item is staged all the same.
AddItemFailsStaging(i) ==
    /\ UNCHANGED clicks
    /\ inflight[i].op = "add"
    /\ handleAddToLocalStorage(inflight[i].selectedItem, inflight[i].searchType,
                               RemoveIndex(inflight, i))
    /\ adding' = FALSE
    /\ last' = Step("add", "failed", inflight[i])
    /\ UNCHANGED <<mounted, route, searchType, itineraries, selectedItineraryId,
                   currentItinerary, storeVars, payloadVars, auxVars, searchVars>>

\* handleAddToItinerary() after its await, the post having failed
\* (Search.tsx 338-346).
AddItemFails(i) ==
    /\ UNCHANGED clicks
    /\ inflight[i].op = "add"
    /\ \E msg \in ErrorMessages : error' = Or(msg, Str("Failed to add item to itinerary"))
    /\ adding' = FALSE
    /\ inflight' = RemoveIndex(inflight, i)
    /\ last' = Step("add", "failed", inflight[i])
    /\ UNCHANGED <<storage, mounted, route, searchType, itineraries, showAddModal,
                   selectedItem, selectedItineraryId, pendingItems, currentItinerary,
                   successMessage, storeVars, payloadVars, auxVars, searchVars>>

\* removePendingItem(index) (Search.tsx 445-450), from the Remove button of
\* the entry shown at that index.
removePendingItem(index) ==
    /\ Click
    /\ Unobstructed
    /\ index \in 0..(Len(pendingItems) - 1)
    /\ LET r == removePendingItemStore(storage, index)
       IN /\ storage' = r.storage
          /\ pendingItems' = r.items
          /\ inflight' = Interfere(inflight, ChangedKeys(storage, r.storage))
    /\ last' = Step("removeAt", "done", null)
    /\ UNCHANGED <<mounted, route, searchType, itineraries, showAddModal, selectedItem,
                   selectedItineraryId, adding, currentItinerary, error, successMessage,
                   storeVars, payloadVars, auxVars, searchVars>>

\* The Clear All button (Search.tsx 569-571).
clearAll ==
    /\ Click
    /\ Unobstructed
    /\ Len(pendingItems) > 0
    /\ storage' = clearPendingItems(storage)
    /\ pendingItems' = <<>>
    /\ inflight' = Interfere(inflight, ChangedKeys(storage, clearPendingItems(storage)))
    /\ last' = Step("clear", "done", null)
    /\ UNCHANGED <<mounted, route, searchType, itineraries, showAddModal, selectedItem,
                   selectedItineraryId, adding, currentItinerary, error, successMessage,
                   storeVars, payloadVars, auxVars, searchVars>>

(***************************************************************************)
(* handleSaveAllToItinerary (Search.tsx 349-443)                           *)
(***************************************************************************)
\* A guard that lets an empty list through.
NoPendingItemsNever(pending) == FALSE

\* pendingItems.length === 0
NoPendingItems(pending) == Len(pending) = 0

\* A creation request that takes the dates path when either date is there.
createRequestEitherDate(storedItinerary) ==
    IF /\ Truthy(storedItinerary)
       /\ \/ Truthy(Get(storedItinerary, "departure_date"))
          \/ Truthy(Get(storedItinerary, "return_date"))
    THEN [method |-> "POST", url |-> "/itineraries/create-from-flights",
          body |-> [departure_date |-> Get(storedItinerary, "departure_date"),
                    return_date |-> Get(storedItinerary, "return_date"),
                    title |-> Or(Get(storedItinerary, "title"), undefined)]]
    ELSE [method |-> "POST", url |-> "/itineraries", body |-> <<>>]

\* The creation request (Search.tsx 369-379).
createRequest(storedItinerary) ==
    IF /\ Truthy(storedItinerary)
       /\ Truthy(Get(storedItinerary, "departure_date"))
       /\ Truthy(Get(storedItinerary, "return_date"))
    THEN [method |-> "POST", url |-> "/itineraries/create-from-flights",
          body |-> [departure_date |-> storedItinerary.departure_date,
                    return_date |-> storedItinerary.return_date,
                    title |-> Or(Get(storedItinerary, "title"), undefined)]]
    ELSE [method |-> "POST", url |-> "/itineraries", body |-> <<>>]

\* A save request sent to the first itinerary of the loaded list.
saveRequestToFirstListed(itineraryId, pending) ==
    [method |-> "POST", url |-> "/itineraries/:id/save",
     id |-> IF Len(itineraries) > 0
            THEN Or(Get(itineraries[1], "itinerary_id"), Get(itineraries[1], "id"))
            ELSE itineraryId,
     body |-> savePayload(pending)]

\* api.post(`/itineraries/${itineraryId}/save`, { flights, items })
saveRequest(itineraryId, pending) ==
    [method |-> "POST", url |-> "/itineraries/:id/save", id |-> itineraryId,
     body |-> savePayload(pending)]

listRequest == [method |-> "GET", url |-> "/itineraries"]

\* A current itinerary of the id and the title alone.
createdCurrentMinimal(itineraryId, storedItinerary, list) ==
    [itinerary_id |-> itineraryId,
     title |-> Or(GetOpt(storedItinerary, "title"),
                  Str("Itinerary " \o ToString(Len(list) + 1)))]

\* The current itinerary stored after a creation (Search.tsx 384-392).
createdCurrent(itineraryId, storedItinerary, list) ==
    [itinerary_id |-> itineraryId,
     title |-> Or(GetOpt(storedItinerary, "title"),
                  Str("Itinerary " \o ToString(Len(list) + 1))),
     origin |-> GetOpt(storedItinerary, "origin"),
     destination |-> GetOpt(storedItinerary, "destination"),
     departure_date |-> GetOpt(storedItinerary, "departure_date"),
     return_date |-> GetOpt(storedItinerary, "return_date")]

\* localStorage after a successful save that leaves the draft context behind.
savedStorageKeepsDraft(st, itineraryId, data) ==
    [clearPendingItems(st) EXCEPT
        !.planit_saved_data =
            JSONstringifyObject(Merge(data, [itinerary_id |-> itineraryId]))]

\* localStorage after a successful save (Search.tsx 423-430).
savedStorage(st, itineraryId, data) ==
    [clearPendingItems(st) EXCEPT
        !.planit_saved_data =
            JSONstringifyObject(Merge(data, [itinerary_id |-> itineraryId])),
        !.planit_current_itinerary = null]

\* A handler started now: what its closure holds, what was staged when it
\* started, the requests it has sent and how those that returned ended.
Invocation(pc, itineraryId, storedItinerary, requests) ==
    [op |-> "saveAll", pc |-> pc,
     pendingItems |-> pendingItems, itineraries |-> itineraries,
     selectedItineraryId |-> selectedItineraryId,
     storedItinerary |-> storedItinerary, itineraryId |-> itineraryId,
     created |-> FALSE, store0 |-> storage, interfered |-> {}, requests |-> requests,
     responses |-> <<>>, failure |-> null]

\* handleSaveAllToItinerary() up to its first await (Search.tsx 349-379,
\* 409-421), called in any state of the page.
handleSaveAllToItinerary ==
    /\ Click
    /\ PageShown
    /\ IF NoPendingItems(pendingItems)
       THEN /\ error' = Str("No pending items to save")
            /\ last' = Step("saveAll", "rejected", Invocation("done", null, null, <<>>))
            /\ UNCHANGED <<adding, inflight>>
       ELSE /\ Len(inflight) < MaxInflight
            /\ adding' = TRUE
            /\ error' = Str("")
            /\ last' = NoStep
            /\ IF Truthy(selectedItineraryId)
               THEN inflight' = Append(inflight,
                        Invocation("save", selectedItineraryId, null,
                                   <<saveRequest(selectedItineraryId, pendingItems)>>))
               ELSE LET stored == storage.planit_current_itinerary
                        storedItinerary == IF Truthy(stored) THEN JSONparse(stored).value
                                           ELSE null
                    IN inflight' = Append(inflight,
                           Invocation("create", selectedItineraryId, storedItinerary,
                                      <<createRequest(storedItinerary)>>))
    /\ UNCHANGED <<storage, mounted, route, searchType, itineraries, showAddModal,
                   selectedItem, selectedItineraryId, pendingItems, currentItinerary,
                   successMessage, storeVars, payloadVars, auxVars, searchVars>>

\* A creation after which the new id is stored but not selected.
SaveAllCreatedNotSelecting(i) ==
    /\ UNCHANGED clicks
    /\ inflight[i].op = "saveAll" /\ inflight[i].pc = "create"
    /\ \E itineraryId \in CreatedIds :
          LET inv == inflight[i]
              current == createdCurrent(itineraryId, inv.storedItinerary, inv.itineraries)
              stored == [storage EXCEPT
                            !.planit_current_itinerary = JSONstringifyObject(current)]
              going == [inv EXCEPT !.pc = "load",
                                   !.itineraryId = itineraryId,
                                   !.created = TRUE,
                                   !.requests = Append(@, listRequest),
                                   !.responses = Append(@, "ok")]
          IN /\ storage' = stored
             /\ currentItinerary' = current
             /\ inflight' = [Interfere(inflight, ChangedKeys(storage, stored)) EXCEPT
                               ![i] = going]
             /\ last' = Step("saveAll", "created", going)
    /\ UNCHANGED <<mounted, route, searchType, itineraries, showAddModal, selectedItem,
                   selectedItineraryId, adding, pendingItems, error, successMessage,
                   storeVars, payloadVars, auxVars, searchVars>>

\* The creation request succeeded (Search.tsx 381-397): the new id is stored
\* and selected, and loadItineraries() is awaited.
SaveAllCreated(i) ==
    /\ UNCHANGED clicks
    /\ inflight[i].op = "saveAll" /\ inflight[i].pc = "create"
    /\ \E itineraryId \in CreatedIds :
          LET inv == inflight[i]
              current == createdCurrent(itineraryId, inv.storedItinerary, inv.itineraries)
              stored == [storage EXCEPT
                            !.planit_current_itinerary = JSONstringifyObject(current)]
              going == [inv EXCEPT !.pc = "load",
                                   !.itineraryId = itineraryId,
                                   !.created = TRUE,
                                   !.requests = Append(@, listRequest),
                                   !.responses = Append(@, "ok")]
          IN /\ storage' = stored
             /\ currentItinerary' = current
             /\ selectedItineraryId' = itineraryId
             /\ inflight' = [Interfere(inflight, ChangedKeys(storage, stored)) EXCEPT
                               ![i] = going]
             /\ last' = Step("saveAll", "created", going)
    /\ UNCHANGED <<mounted, route, searchType, itineraries, showAddModal, selectedItem,
                   adding, pendingItems, error, successMessage, storeVars, payloadVars, auxVars,
                   searchVars>>

\* A handler whose request failed with the response message msg (undefined
\* when the response carries none): msg or else the generic message is shown,
\* adding is reset, and localStorage becomes st.
SaveAllFails(i, outcome, msg, generic, st) ==
    /\ UNCHANGED clicks
    /\ error' = Or(msg, generic)
    /\ adding' = FALSE
    /\ storage' = st
    /\ inflight' = RemoveIndex(Interfere(inflight, ChangedKeys(storage, st)), i)
    /\ last' = Step("saveAll", outcome,
                     [inflight[i] EXCEPT !.failure = msg,
                                         !.responses = Append(@, "failed")])
    /\ UNCHANGED <<mounted, route, searchType, itineraries, showAddModal, selectedItem,
                   selectedItineraryId, pendingItems, currentItinerary, successMessage,
                   storeVars, payloadVars, auxVars, searchVars>>

\* A creation failure that also drops the draft context.
SaveAllCreateFailedDroppingDraft(i) ==
    /\ inflight[i].op = "saveAll" /\ inflight[i].pc = "create"
    /\ \E msg \in ErrorMessages :
          SaveAllFails(i, "create_failed", msg, Str("Failed to create itinerary"),
                       [storage EXCEPT !.planit_current_itinerary = null])

\* A creation failure reported with the generic message of the save.
SaveAllCreateFailedGeneric(i) ==
    /\ inflight[i].op = "saveAll" /\ inflight[i].pc = "create"
    /\ \E msg \in ErrorMessages :
          SaveAllFails(i, "create_failed", msg, Str("Failed to save items"), storage)

\* The creation request failed (Search.tsx 398-406).
SaveAllCreateFailed(i) ==
    /\ inflight[i].op = "saveAll" /\ inflight[i].pc = "create"
    /\ \E msg \in ErrorMessages :
          SaveAllFails(i, "create_failed", msg, Str("Failed to create itinerary"),
                       storage)

\* The loadItineraries() awaited after a creation returned (Search.tsx 397,
\* 175-182); the save request follows (Search.tsx 409-421).
SaveAllListed(i) ==
    /\ UNCHANGED clicks
    /\ inflight[i].op = "saveAll" /\ inflight[i].pc = "load"
    /\ \E outcome \in {"ok", "failed"} :
          /\ IF outcome = "ok" THEN \E list \in ItineraryLists : itineraries' = list
             ELSE UNCHANGED itineraries
          /\ inflight' = [inflight EXCEPT
                            ![i] = [@ EXCEPT !.pc = "save",
                                             !.responses = Append(@, outcome),
                                             !.requests = Append(@,
                                                 saveRequest(inflight[i].itineraryId,
                                                             inflight[i].pendingItems))]]
    /\ last' = NoStep
    /\ UNCHANGED <<storage, mounted, route, searchType, showAddModal, selectedItem,
                   selectedItineraryId, adding, pendingItems, currentItinerary, error,
                   successMessage, storeVars, payloadVars, auxVars, searchVars>>

\* The save request succeeded with the response body data (Search.tsx
\* 423-433, 440-442).
SaveAllSavedWith(i, data) ==
    /\ UNCHANGED clicks
    /\ inflight[i].op = "saveAll" /\ inflight[i].pc = "save"
    /\ LET st == savedStorage(storage, inflight[i].itineraryId, data)
       IN /\ storage' = st
          /\ inflight' = RemoveIndex(Interfere(inflight, ChangedKeys(storage, st)), i)
    /\ pendingItems' = <<>>
    /\ currentItinerary' = null
    /\ successMessage' = Str("All items saved to itinerary!")
    /\ route' = ItineraryRoute(inflight[i].itineraryId)
    /\ adding' = FALSE
    /\ last' = Step("saveAll", "saved", [inflight[i] EXCEPT !.responses = Append(@, "ok")])
    /\ UNCHANGED <<mounted, searchType, itineraries, showAddModal, selectedItem,
                   selectedItineraryId, error, storeVars, payloadVars, auxVars, searchVars>>

SaveAllSaved(i) == \E data \in SaveResponses : SaveAllSavedWith(i, data)

\* A save failure after which the save request is sent once more.
SaveAllSaveFailedRetrying(i) ==
    /\ inflight[i].op = "saveAll" /\ inflight[i].pc = "save"
    /\ IF Len(inflight[i].requests) < 4
       THEN /\ inflight' = [inflight EXCEPT
                              ![i] = [@ EXCEPT !.responses = Append(@, "failed"),
                                               !.requests = Append(@,
                                                   saveRequest(inflight[i].itineraryId,
                                                               inflight[i].pendingItems))]]
            /\ last' = NoStep
            /\ UNCHANGED <<storage, mounted, route, reactState, clicks, storeVars,
                           payloadVars, auxVars, searchVars>>
       ELSE \E msg \in ErrorMessages :
               SaveAllFails(i, "save_failed", msg, Str("Failed to save items"), storage)

\* A save failure that clears the pending items all the same.
SaveAllSaveFailedClearing(i) ==
    /\ inflight[i].op = "saveAll" /\ inflight[i].pc = "save"
    /\ \E msg \in ErrorMessages :
          SaveAllFails(i, "save_failed", msg, Str("Failed to save items"),
                       clearPendingItems(storage))

\* The save request failed with the response message msg (Search.tsx
\* 434-442).
SaveAllSaveFailedWith(i, msg) ==
    /\ inflight[i].op = "saveAll" /\ inflight[i].pc = "save"
    /\ SaveAllFails(i, "save_failed", msg, Str("Failed to save items"), storage)

SaveAllSaveFailed(i) == \E msg \in ErrorMessages : SaveAllSaveFailedWith(i, msg)

(***************************************************************************)
(* The search form and the responses of the searches                       *)
(***************************************************************************)
\* What can be typed into the location field and picked in the date fields.
Queries == {Str(""), Str(" "), Str("Lyon")}
Dates == {Str(""), Str("2025-07-01")}

\* onChange of the location field: setQuery(e.target.value)
setQuery(text) ==
    /\ Click
    /\ Unobstructed
    /\ text # query
    /\ query' = text
    /\ last' = NoStep
    /\ UNCHANGED <<storage, mounted, route, reactState, inflight, storeVars, payloadVars, auxVars,
                   checkIn, checkOut, results, loading>>

\* onChange of the date fields, rendered on the hotels tab: setCheckIn,
\* setCheckOut
setCheckIn(date) ==
    /\ Click
    /\ Unobstructed
    /\ searchType = "hotels"
    /\ date # checkIn
    /\ checkIn' = date
    /\ last' = NoStep
    /\ UNCHANGED <<storage, mounted, route, reactState, inflight, storeVars, payloadVars, auxVars,
                   query, checkOut, results, loading>>

setCheckOut(date) ==
    /\ Click
    /\ Unobstructed
    /\ searchType = "hotels"
    /\ date # checkOut
    /\ checkOut' = date
    /\ last' = NoStep
    /\ UNCHANGED <<storage, mounted, route, reactState, inflight, storeVars, payloadVars, auxVars,
                   query, checkIn, results, loading>>

\* What a step of the search form leaves alone.
SearchFrame ==
    UNCHANGED <<storage, mounted, route, searchType, itineraries, showAddModal,
                selectedItem, selectedItineraryId, adding, pendingItems, currentItinerary,
                storeVars, payloadVars, auxVars, query, checkIn, checkOut>>

\* Enter in the location field: e.key === 'Enter' && handleSearch()
SearchOnEnter ==
    /\ Click
    /\ Unobstructed
    /\ ApplySearch(handleSearchRun(undefined, Closure, SearchState))
    /\ last' = NoStep
    /\ UNCHANGED results
    /\ SearchFrame

\* <Button onClick={handleSearch} disabled={loading}>: the handler receives
\* the click event as its forceType.
SearchButton ==
    /\ Click
    /\ Unobstructed
    /\ ~loading
    /\ ApplySearch(handleSearchRun(ClickEvent, Closure, SearchState))
    /\ last' = NoStep
    /\ UNCHANGED results
    /\ SearchFrame

\* A search handler that returned: what it was sent, what it did, and the
\* error shown when its response came.
Searched(inv, data, notice) ==
    [op |-> "search", activeType |-> inv.activeType, request |-> inv.request,
     data |-> data, notice |-> notice, errorBefore |-> error,
     overtaken |-> inv.overtaken]

\* The attractions request returned data (Search.tsx 197-221, 249-251).
SearchAttractionsReturns(i, data) ==
    /\ UNCHANGED clicks
    /\ inflight[i].op = "search" /\ inflight[i].activeType = "attractions"
    /\ LET outcome == attractionsOutcome(data)
       IN /\ results' = outcome.results
          /\ error' = (IF outcome.notice = null THEN error ELSE outcome.notice)
          /\ last' = Step("search", "attractions", Searched(inflight[i], data, outcome.notice))
    /\ loading' = FALSE
    /\ inflight' = RemoveIndex(Overtake(inflight, i), i)
    /\ UNCHANGED successMessage
    /\ SearchFrame

\* The hotels request returned data (Search.tsx 236-251).
SearchHotelsReturns(i, data) ==
    /\ UNCHANGED clicks
    /\ inflight[i].op = "search" /\ inflight[i].activeType = "hotels"
    /\ LET outcome == hotelsOutcome(data)
       IN IF outcome.raised
          THEN /\ error' = Str("Search failed")
               /\ last' = Step("search", "failed",
                                Searched(inflight[i], data, Str("Search failed")))
               /\ UNCHANGED results
          ELSE /\ results' = outcome.results
               /\ last' = Step("search", "hotels", Searched(inflight[i], data, null))
               /\ UNCHANGED error
    /\ loading' = FALSE
    /\ inflight' = RemoveIndex(Overtake(inflight, i), i)
    /\ UNCHANGED successMessage
    /\ SearchFrame

\* A search request failed (Search.tsx 243-251).
SearchFails(i) ==
    /\ UNCHANGED clicks
    /\ inflight[i].op = "search"
    /\ \E msg \in ErrorMessages :
          /\ error' = Or(msg, Str("Search failed"))
          /\ last' = Step("search", "failed",
                           Searched(inflight[i], undefined, Or(msg, Str("Search failed"))))
    /\ loading' = FALSE
    /\ inflight' = RemoveIndex(Overtake(inflight, i), i)
    /\ UNCHANGED <<successMessage, results>>
    /\ SearchFrame

\* The records of a search response.
SearchRecords ==
    {[xid |-> Str("X1"), name |-> Str("Louvre"), image |-> Str("louvre.jpg")],
     [id |-> Str("7"), name |-> Str("Tower"), rate |-> Num(3)],
     [xid |-> Str("X2"), name |-> Str("Park"), rating |-> Num(0)],
     [xid |-> Str("X3"), name |-> Str("Garden"), rating |-> Num(4)],
     [hotel_id |-> Str("H1"), name |-> Str("Hotel A"), price_per_night |-> Num(120)],
     [hotel_key |-> Str("K9"), name |-> Str("Inn"), price |-> Num(80)],
     [name |-> Str("Cafe"), address |-> Str("1 Rue")]}

\* The response bodies the page specifications answer a search with.
PageAttractionResponses ==
    {null,
     [attractions |-> Arr(<<[xid |-> Str("X1"), name |-> Str("Louvre")],
                            [hotel_id |-> Str("H1"), name |-> Str("Hotel A")]>>)]}
PageHotelResponses ==
    {[hotels |-> Arr(<<[hotel_key |-> Str("K9"), name |-> Str("Inn"),
                         price |-> Num(80)]>>)]}

Next ==
    \/ Mount
    \/ \E i \in 1..Len(inflight) : LoadItinerariesReturns(i)
    \/ \E type \in {"attractions", "hotels"} : switchSearchType(type)
    \/ \E item \in ResultItems : openAddModal(item)
    \/ closeModal
    \/ \E value \in SelectOptions : selectItinerary(value)
    \/ handleAddToItinerary
    \/ \E i \in 1..Len(inflight) : AddItemSucceeds(i)
    \/ \E i \in 1..Len(inflight) : AddItemFails(i)
    \/ \E index \in 0..(MaxPending + 1) : removePendingItem(index)
    \/ clearAll
    \/ handleSaveAllToItinerary
    \/ \E i \in 1..Len(inflight) : SaveAllCreated(i)
    \/ \E i \in 1..Len(inflight) : SaveAllCreateFailed(i)
    \/ \E i \in 1..Len(inflight) : SaveAllListed(i)
    \/ \E i \in 1..Len(inflight) : SaveAllSaved(i)
    \/ \E i \in 1..Len(inflight) : SaveAllSaveFailed(i)
    \/ SearchOnEnter
    \/ SearchButton
    \/ \E i \in 1..Len(inflight), data \in PageAttractionResponses :
          SearchAttractionsReturns(i, data)
    \/ \E i \in 1..Len(inflight), data \in PageHotelResponses : SearchHotelsReturns(i, data)
    \/ \E i \in 1..Len(inflight) : SearchFails(i)

Spec == Init /\ [][Next]_vars

(***************************************************************************)
(* Claims on saveAll (checked under Spec)                                  *)
(***************************************************************************)
\* A saveAll handler returned in the last step, with this outcome.
SaveAllReturned(outcome) == last.op = "saveAll" /\ last.outcome = outcome

\* It failed, and nobody else changed what is staged while it waited.
SaveAllFailedAlone ==
    /\ SaveAllReturned("create_failed") \/ SaveAllReturned("save_failed")
    /\ last.inv.interfered = {}

DraftFields == {"origin", "destination", "departure_date", "return_date"}

\* The draft context a storage holds, as an object (no key when there is none).
DraftOf(st) ==
    IF Truthy(st.planit_current_itinerary)
    THEN JSONparse(st.planit_current_itinerary).value ELSE <<>>

\* C1: if the save request fails, the store holds after saveAll returns
\* exactly the entries, in the same order, it held when saveAll was invoked
\* (no other handler having written the store while it waited).
C1_SaveFailureKeepsStore ==
    (SaveAllReturned("save_failed") /\ "planit_pending_items" \notin last.inv.interfered)
        => (/\ HoldsSequence(storage)
            /\ Stored(storage) = Stored(last.inv.store0))

C1_Witness ==
    /\ SaveAllReturned("save_failed")
    /\ last.inv.interfered = {}
    /\ Len(Stored(storage)) = 2
    /\ pendingItems = Stored(storage)

\* C2: if the save request succeeds, then after saveAll returns the store is
\* empty and the draft-context record no longer exists.
C2_SaveSuccessClearsStoreAndDraft ==
    SaveAllReturned("saved")
        => (/\ getPendingItems(storage) = Return(Arr(<<>>))
            /\ storage.planit_current_itinerary = null)

C2_Witness ==
    /\ SaveAllReturned("saved")
    /\ Len(Stored(last.inv.store0)) = 2
    /\ last.inv.store0.planit_current_itinerary # null
    /\ storage.planit_saved_data # null

\* C3 as stated: after every failed saveAll the store and the persisted
\* draft-context record are both what they were before the invocation.
C3_FailureKeepsAllStagedState ==
    SaveAllFailedAlone
        => (/\ storage.planit_pending_items = last.inv.store0.planit_pending_items
            /\ storage.planit_current_itinerary =
                   last.inv.store0.planit_current_itinerary)

\* C3 amended: after every failed saveAll the store is what it was before the
\* invocation; so is the draft-context record, unless the invocation created
\* an itinerary: then the record references the new itinerary and keeps the
\* draft's origin, destination and dates.
C3_FailureKeepsStoreAndDraftUnlessCreated ==
    SaveAllFailedAlone
        => (/\ storage.planit_pending_items = last.inv.store0.planit_pending_items
            /\ IF last.inv.created
               THEN /\ Get(DraftOf(storage), "itinerary_id") = last.inv.itineraryId
                    /\ \A k \in DraftFields :
                          Get(DraftOf(storage), k) = Get(DraftOf(last.inv.store0), k)
               ELSE storage.planit_current_itinerary =
                        last.inv.store0.planit_current_itinerary)

C3_Witness ==
    /\ SaveAllReturned("save_failed")
    /\ last.inv.interfered = {}
    /\ last.inv.created
    /\ last.inv.store0.planit_current_itinerary # null
    /\ storage.planit_current_itinerary # last.inv.store0.planit_current_itinerary

\* C4: saveAll invoked while the store is empty issues no network call and
\* fails with 'No pending items to save', leaving store and draft unchanged.
C4_EmptyStoreIsRejectedWithoutRequest ==
    /\ \A i \in InflightOf("saveAll") : Stored(inflight[i].store0) # <<>>
    /\ (last.op = "saveAll" /\ Stored(last.inv.store0) = <<>>)
          => (/\ last.outcome = "rejected"
              /\ last.inv.requests = <<>>
              /\ error = Str("No pending items to save")
              /\ storage = last.inv.store0)

C4_Witness ==
    /\ SaveAllReturned("rejected")
    /\ Stored(storage) = <<>>
    /\ storage.planit_current_itinerary # null
    /\ inflight = <<>>

(***************************************************************************)
(* Claims on the requests of saveAll (checked under Spec)                  *)
(***************************************************************************)
\* The saveAll invocations known in a state: those suspended and the one that
\* returned in the last step.
SaveAllInvocations ==
    {inflight[i] : i \in InflightOf("saveAll")}
        \cup (IF last.op = "saveAll" THEN {last.inv} ELSE {})

CreationUrls == {"/itineraries/create-from-flights", "/itineraries"}
SaveUrl == "/itineraries/:id/save"

\* The positions of the requests of an invocation posted to one of the urls
\* (the GET of the itinerary list is not among them).
RequestsTo(inv, urls) ==
    {k \in 1..Len(inv.requests) :
        inv.requests[k].method = "POST" /\ inv.requests[k].url \in urls}

HasBothDates(draft) ==
    Truthy(Get(draft, "departure_date")) /\ Truthy(Get(draft, "return_date"))

\* C11: saveAll run with no selected itinerary id and a non-empty store issues
\* exactly one creation request, and it is its first request: the 'from dates'
\* request with the draft's two dates and optional title if and only if the
\* draft context carries both dates, the empty-itinerary request otherwise
\* (a missing draft context included).
C11_OneCreationRequestByDates ==
    \A inv \in SaveAllInvocations :
        (~Truthy(inv.selectedItineraryId) /\ Stored(inv.store0) # <<>>)
            => /\ RequestsTo(inv, CreationUrls) = {1}
               /\ LET draft == DraftOf(inv.store0)
                      req == inv.requests[1]
                  IN IF HasBothDates(draft)
                     THEN /\ req.url = "/itineraries/create-from-flights"
                          /\ req.body.departure_date = draft.departure_date
                          /\ req.body.return_date = draft.return_date
                          /\ req.body.title =
                                 (IF Truthy(Get(draft, "title")) THEN draft.title
                                  ELSE undefined)
                     ELSE /\ req.url = "/itineraries" /\ req.method = "POST"
                          /\ req.body = <<>>

\* A draft with one date only went the empty-itinerary way, and the save
\* request followed.
C11_Witness ==
    \E inv \in SaveAllInvocations :
        /\ ~Truthy(inv.selectedItineraryId)
        /\ Truthy(Get(DraftOf(inv.store0), "departure_date"))
        /\ ~Truthy(Get(DraftOf(inv.store0), "return_date"))
        /\ RequestsTo(inv, {SaveUrl}) # {}
        /\ inv.requests[1].url = "/itineraries" /\ inv.requests[1].method = "POST"

\* C12: saveAll run with a selected itinerary id (and something to save)
\* issues no creation request, sends its one save request to that id, and the
\* draft-context record is as it was at the invocation while that request is
\* out.
C12_SelectedIdIsTheTarget ==
    /\ \A inv \in SaveAllInvocations :
          (Truthy(inv.selectedItineraryId) /\ inv.pendingItems # <<>>)
              => /\ RequestsTo(inv, CreationUrls) = {}
                 /\ ~inv.created
                 /\ Len(inv.requests) = 1
                 /\ inv.requests[1].url = SaveUrl
                 /\ inv.requests[1].id = inv.selectedItineraryId
    /\ \A i \in InflightOf("saveAll") :
          (/\ Truthy(inflight[i].selectedItineraryId)
           /\ "planit_current_itinerary" \notin inflight[i].interfered)
              => storage.planit_current_itinerary =
                     inflight[i].store0.planit_current_itinerary

\* The selected id is not the first of the loaded list.
C12_Witness ==
    \E i \in InflightOf("saveAll") :
        /\ Truthy(inflight[i].selectedItineraryId)
        /\ inflight[i].pc = "save"
        /\ Len(itineraries) > 0
        /\ Get(itineraries[1], "id") # inflight[i].selectedItineraryId
        /\ storage.planit_current_itinerary # null

\* C13: if the creation request fails, saveAll has issued no save request,
\* the store and the draft context are what they were at the invocation
\* (unless another handler wrote them meanwhile), and the error shown is the
\* service's message when the response carries one, otherwise
\* 'Failed to create itinerary'.
C13_CreationFailureAborts ==
    SaveAllReturned("create_failed")
        => /\ RequestsTo(last.inv, {SaveUrl}) = {}
           /\ Len(last.inv.requests) = 1
           /\ \A k \in StagedKeys \ last.inv.interfered : storage[k] = last.inv.store0[k]
           /\ error = (IF Truthy(last.inv.failure) THEN last.inv.failure
                       ELSE Str("Failed to create itinerary"))
           /\ ~adding \/ inflight # <<>>

C13_Witness ==
    /\ SaveAllReturned("create_failed")
    /\ last.inv.interfered = {}
    /\ Truthy(last.inv.failure)
    /\ error = last.inv.failure
    /\ Stored(storage) # <<>>
    /\ storage.planit_current_itinerary # null

(***************************************************************************)
(* SpecPage: the page driven through its own buttons only.  saveAll starts *)
(* from the 'Save All to Itinerary' button (Search.tsx 566-568) and from   *)
(* the banner button (Search.tsx 468-479), where they are rendered and     *)
(* enabled.                                                                *)
(***************************************************************************)
\* <Button onClick={handleSaveAllToItinerary} disabled={adding || !selectedItineraryId}>
\* inside the pending panel, rendered when pendingItems.length > 0.
SaveAllButton ==
    /\ Unobstructed
    /\ Len(pendingItems) > 0
    /\ ~(adding \/ ~Truthy(selectedItineraryId))
    /\ handleSaveAllToItinerary

\* A banner button that saves whenever something is pending.
BannerButtonAnyPending ==
    /\ Unobstructed
    /\ Truthy(currentItinerary)
    /\ IF Len(pendingItems) > 0
       THEN handleSaveAllToItinerary
       ELSE /\ Click
            /\ route' = ItineraryRoute(Get(currentItinerary, "itinerary_id"))
            /\ last' = NoStep
            /\ UNCHANGED <<storage, mounted, reactState, inflight, storeVars, payloadVars,
                           auxVars, searchVars>>

\* The button of the banner, rendered when currentItinerary is set; it has
\* no disabled attribute.
BannerButton ==
    /\ Unobstructed
    /\ Truthy(currentItinerary)
    /\ IF Len(pendingItems) > 0 /\ Truthy(selectedItineraryId)
       THEN handleSaveAllToItinerary
       ELSE /\ Click
            /\ route' = ItineraryRoute(Get(currentItinerary, "itinerary_id"))
            /\ last' = NoStep
            /\ UNCHANGED <<storage, mounted, reactState, inflight, storeVars, payloadVars,
                           auxVars, searchVars>>

NextPage ==
    \/ Mount
    \/ \E i \in 1..Len(inflight) : LoadItinerariesReturns(i)
    \/ \E type \in {"attractions", "hotels"} : switchSearchType(type)
    \/ \E item \in ResultItems : openAddModal(item)
    \/ closeModal
    \/ \E value \in SelectOptions : selectItinerary(value)
    \/ handleAddToItinerary
    \/ \E i \in 1..Len(inflight) : AddItemSucceeds(i)
    \/ \E i \in 1..Len(inflight) : AddItemFails(i)
    \/ \E index \in 0..(MaxPending + 1) : removePendingItem(index)
    \/ clearAll
    \/ SaveAllButton
    \/ BannerButton
    \/ \E i \in 1..Len(inflight) : SaveAllSaved(i)
    \/ \E i \in 1..Len(inflight) : SaveAllSaveFailed(i)
    \/ SearchOnEnter
    \/ SearchButton
    \/ \E i \in 1..Len(inflight), data \in PageAttractionResponses :
          SearchAttractionsReturns(i, data)
    \/ \E i \in 1..Len(inflight), data \in PageHotelResponses : SearchHotelsReturns(i, data)
    \/ \E i \in 1..Len(inflight) : SearchFails(i)

SpecPage == Init /\ [][NextPage]_vars

(***************************************************************************)
(* Claims on the page's triggers (checked under SpecPage)                  *)
(***************************************************************************)
\* C14: at most one saveAll is in flight at any time, and no saveAll was
\* started while an earlier saveAll or direct add had not yet returned
\* (inflight keeps the handlers in the order they started).
C14_OneSaveAllInFlight ==
    \A j \in InflightOf("saveAll") :
        \A i \in 1..(j - 1) : inflight[i].op \notin {"saveAll", "add"}

\* A step that leaves the search page without a saveAll having saved: the
\* banner button navigating.
BannerNavigates == route' # route /\ last'.op # "saveAll"

\* C23: through the page's own triggers saveAll is never started without a
\* selected itinerary id, so no saveAll of the page ever sends a creation
\* request; the banner button pressed with no id selected (or with nothing
\* pending) navigates to the itinerary and starts nothing.
C23_NoCreationThroughThePage ==
    /\ [](\A inv \in SaveAllInvocations :
            /\ Truthy(inv.selectedItineraryId)
            /\ inv.pc # "create"
            /\ ~inv.created
            /\ RequestsTo(inv, CreationUrls) = {})
    /\ [][BannerNavigates
             => (/\ Len(pendingItems) = 0 \/ ~Truthy(selectedItineraryId)
                 /\ inflight' = inflight
                 /\ storage' = storage
                 /\ adding' = adding)]_vars

\* Items are pending, no id is selected, and the banner button has taken the
\* user to the itinerary view without a request.
C23_Witness ==
    /\ route # SearchRoute
    /\ last.op # "saveAll"
    /\ Len(pendingItems) > 0
    /\ ~Truthy(selectedItineraryId)
    /\ InflightOf("saveAll") = {}
    /\ storage.planit_saved_data = null

(***************************************************************************)
(* SpecSearch: the search form alone.  The page is opened on any draft     *)
(* context, the user types, switches tabs and searches, and the server     *)
(* answers each search.                                                    *)
(***************************************************************************)
\* The response bodies of an attractions search, one of each kind the
\* handler tells apart, and those of a hotels search.
AttractionResponses ==
    {null,
     [hotels |-> Arr(<<>>)],
     [attractions |-> Str("none")],
     [attractions |-> Arr(<<>>)],
     [attractions |-> Arr(<<[hotel_id |-> Str("H1"), name |-> Str("Hotel A"),
                             price_per_night |-> Num(120)],
                            [name |-> Str("Cafe"), address |-> Str("1 Rue")]>>)],
     [attractions |-> Arr(<<[xid |-> Str("X1"), name |-> Str("Louvre")],
                            [xid |-> Str("X3"), name |-> Str("Garden"),
                             rating |-> Num(4)]>>)]}

HotelResponses ==
    {null, [msg |-> Str("no hotels")], [hotels |-> Str("none")]}
        \cup {[hotels |-> Arr(raw)] : raw \in SeqUpTo(SearchRecords, 1)}

InitSearch ==
    /\ \E draft \in {null} \cup Drafts :
          storage = [EmptyStorage EXCEPT
                        !.planit_current_itinerary =
                            IF draft = null THEN null ELSE JSONstringifyObject(draft)]
    /\ Constructed
    /\ call = NoCall
    /\ hist = Untracked
    /\ staged = <<>>
    /\ payload = null
    /\ home = null
    /\ norm = null

NextSearch ==
    \/ Mount
    \/ \E i \in 1..Len(inflight) : LoadItinerariesReturns(i)
    \/ \E text \in Queries : setQuery(text)
    \/ \E date \in Dates : setCheckIn(date)
    \/ \E date \in Dates : setCheckOut(date)
    \/ \E type \in {"attractions", "hotels"} : switchSearchType(type)
    \/ SearchOnEnter
    \/ SearchButton
    \/ \E i \in 1..Len(inflight), data \in AttractionResponses :
          SearchAttractionsReturns(i, data)
    \/ \E i \in 1..Len(inflight), data \in HotelResponses : SearchHotelsReturns(i, data)
    \/ \E i \in 1..Len(inflight) : SearchFails(i)

SpecSearch == InitSearch /\ [][NextSearch]_vars

(***************************************************************************)
(* SpecAttractions: attractions searches from the location field, answered *)
(* with every list of at most MaxRaw records.  The location is the         *)
(* destination of the draft context, and the itinerary list requested at   *)
(* mount, which no search reads, is still on its way.                      *)
(***************************************************************************)
MaxRaw == 2          \* longest list of records in a response

AttractionLists == {[attractions |-> Arr(raw)] : raw \in SeqUpTo(SearchRecords, MaxRaw)}

NextAttractions ==
    \/ Mount
    \/ SearchOnEnter
    \/ \E i \in 1..Len(inflight), data \in AttractionLists :
          SearchAttractionsReturns(i, data)

SpecAttractions == InitSearch /\ [][NextAttractions]_vars

(***************************************************************************)
(* Claims on the attractions search (C15 checked under SpecAttractions,    *)
(* C16 under SpecSearch)                                                   *)
(***************************************************************************)
\* An attractions search returned in the last step with a response body.
AttractionsReturned == last.op = "search" /\ last.outcome = "attractions"

\* The body carries an attractions list.
HasList(data) ==
    /\ data \notin {undefined, null}
    /\ "attractions" \in DOMAIN data
    /\ "arr" \in DOMAIN data.attractions

\* The record has a hotel identifier, a nightly price, a rating or an address.
Flagged(record) ==
    \E k \in {"hotel_id", "hotel_key", "price_per_night", "rating", "address"} :
        k \in DOMAIN record /\ Present(record[k])

\* How many of the first k records of a list are not flagged.
KeptUpTo(raw, k) == Cardinality({i \in 1..k : ~Flagged(raw[i])})

\* The fields normalisation assigns.
Normalised == {"image_url", "xid"}

\* C15: after an attractions search returned a list, the result set holds no
\* record the classifier flags, and holds every record it does not flag, in
\* response order, each with the fields it came with.
C15_HotelLikeRecordsAreFiltered ==
    (AttractionsReturned /\ HasList(last.inv.data))
        => LET raw == last.inv.data.attractions.arr
           IN /\ Len(results) = KeptUpTo(raw, Len(raw))
              /\ \A n \in 1..Len(results) : ~Flagged(results[n])
              /\ \A k \in 1..Len(raw) :
                    ~Flagged(raw[k])
                        => \A f \in DOMAIN raw[k] \ Normalised :
                              results[KeptUpTo(raw, k)][f] = raw[k][f]

\* A hotel-like record between two attractions was dropped; so was one
\* flagged by its rating alone.
C15_Witness ==
    /\ AttractionsReturned
    /\ HasList(last.inv.data)
    /\ LET raw == last.inv.data.attractions.arr
       IN /\ Len(raw) = 2
          /\ Flagged(raw[1]) /\ "hotel_id" \notin DOMAIN raw[1]
          /\ ~Flagged(raw[2])
          /\ Len(results) = 1

\* C16: an attractions search that returned ends in one of three ways:
\* (a) an empty list: no results, and the search sets no notice (the error
\*     area is as the response found it);
\* (b) a non-empty list of which no record is kept: no results, and the
\*     notice that the results appear to be hotels;
\* (c) no list in the body: no results, and the 'unexpected data' notice.
\* The notice of (b) is set only when the raw list was non-empty and nothing
\* of it is kept.
C16_ThreeOutcomesOfAnEmptyResult ==
    AttractionsReturned
        => LET data == last.inv.data
               notice == last.inv.notice
           IN /\ notice # null => error = notice
              /\ IF ~HasList(data)
                 THEN results = <<>> /\ notice = UnexpectedNotice
                 ELSE LET raw == data.attractions.arr
                      IN /\ raw = <<>> => /\ results = <<>>
                                          /\ notice = null
                                          /\ error = last.inv.errorBefore
                         /\ (raw # <<>> /\ KeptUpTo(raw, Len(raw)) = 0)
                               => (results = <<>> /\ notice = HotelsNotice)
                         /\ notice = HotelsNotice
                               => (raw # <<>> /\ results = <<>>)
                         /\ notice # UnexpectedNotice

\* The server answered with an empty list and the page shows neither results
\* nor a notice.
C16_Witness ==
    /\ AttractionsReturned
    /\ HasList(last.inv.data)
    /\ last.inv.data.attractions.arr = <<>>
    /\ results = <<>>
    /\ error = Str("")
    /\ ~loading

\* C29: while a search is outstanding the loading flag is true; and when a
\* search has returned with results and none is outstanding, the results
\* shown are those of the search issued last (no search issued after it
\* returned before it) and that search was of the active search type.
C29_LastIssuedSearchWins ==
    /\ InflightOf("search") # {} => loading
    /\ (/\ last.op = "search" /\ last.outcome \in {"attractions", "hotels"}
        /\ InflightOf("search") = {})
          => (/\ ~last.inv.overtaken
              /\ last.inv.activeType = searchType)

(***************************************************************************)
(* Claims on the order of the requests of saveAll (checked under Spec)     *)
(***************************************************************************)
\* The positions of the requests of an invocation that came back failed.
FailedRequests(inv) == {k \in 1..Len(inv.responses) : inv.responses[k] = "failed"}

\* An invocation sends at most one creation request and at most one save
\* request, and the save request only after the creation request came back.
AtMostOnceInOrder(inv) ==
    /\ Cardinality(RequestsTo(inv, CreationUrls)) <= 1
    /\ Cardinality(RequestsTo(inv, {SaveUrl})) <= 1
    /\ \A c \in RequestsTo(inv, CreationUrls), v \in RequestsTo(inv, {SaveUrl}) :
          c < v /\ c \in 1..Len(inv.responses) /\ inv.responses[c] = "ok"

\* A step that sends a request: a handler more is suspended, or a suspended
\* saveAll has sent one more.
SendsRequest ==
    \/ Len(inflight') > Len(inflight)
    \/ /\ Len(inflight') = Len(inflight)
       /\ \E i \in InflightOf("saveAll") :
             /\ inflight'[i].op = "saveAll"
             /\ Len(inflight'[i].requests) > Len(inflight[i].requests)

\* A step in which a suspended saveAll goes on after a response that was no
\* failure of its creation or save request.
SaveAllGoesOn ==
    /\ Len(inflight') = Len(inflight)
    /\ \E i \in InflightOf("saveAll") :
          /\ inflight'[i].op = "saveAll"
          /\ Len(inflight'[i].requests) = Len(inflight[i].requests) + 1
          /\ \A k \in FailedRequests(inflight'[i]) :
                inflight[i].requests[k] = listRequest

\* C17 as stated: an invocation sends at most one creation and at most one
\* save request, the save after the creation response, and after any of its
\* requests failed it sends no further request.
C17_NoRequestAfterAnyFailure ==
    \A inv \in SaveAllInvocations :
        /\ AtMostOnceInOrder(inv)
        /\ \A k \in FailedRequests(inv) : k = Len(inv.requests)

\* C17 amended: an invocation sends at most one creation and at most one
\* save request, the save after the creation response; after its creation
\* or save request failed it sends no further request (a failed reload of
\* the itinerary list after a creation is passed over and the save request
\* is sent all the same); and a request is sent only by a user action, by
\* the mount, or by a saveAll going on after such a response.
C17_AtMostOnceNoRetry ==
    /\ [](\A inv \in SaveAllInvocations :
            /\ AtMostOnceInOrder(inv)
            /\ \A k \in FailedRequests(inv) :
                  inv.requests[k] # listRequest => k = Len(inv.requests))
    /\ [][SendsRequest => (clicks' = clicks + 1 \/ ~mounted \/ SaveAllGoesOn)]_vars

\* A saveAll that created an itinerary, failed to reload the list, sent its
\* save request and failed.
C17_Witness ==
    /\ SaveAllReturned("save_failed")
    /\ Len(last.inv.requests) = 3
    /\ last.inv.responses = <<"ok", "failed", "failed">>
    /\ inflight = <<>>

(***************************************************************************)
(* Claims on what saveAll leaves behind (checked under Spec)               *)
(***************************************************************************)
\* A saveAll received its creation response in the last step.
SaveAllCreatedNow == last.op = "saveAll" /\ last.outcome = "created"

\* What C18 says of the record, for a list of itineraries to count.
DraftReferencesCreated(list) ==
    LET draft == DraftOf(storage)
        before == DraftOf(last.inv.store0)
    IN /\ Get(draft, "itinerary_id") = last.inv.itineraryId
       /\ selectedItineraryId = last.inv.itineraryId
       /\ \A k \in DraftFields : Get(draft, k) = Get(before, k)
       /\ Get(draft, "title") =
              (IF Present(Get(before, "title")) THEN before.title
               ELSE Str("Itinerary " \o ToString(Len(list) + 1)))

\* C18 as stated: after a successful creation the persisted draft-context
\* record references the new id, keeps the draft's origin, destination and
\* dates and has the draft's title or else 'Itinerary N', N being the number
\* of itineraries in the loaded list plus one; the selected id is the new id.
C18_DraftReferencesCreatedCountingLoaded ==
    SaveAllCreatedNow => DraftReferencesCreated(itineraries)

\* C18 amended: the same, N being the number of itineraries in the list as
\* it was loaded when saveAll was invoked, plus one.
C18_DraftReferencesCreatedCountingAtInvocation ==
    SaveAllCreatedNow => DraftReferencesCreated(last.inv.itineraries)

\* The list was loaded while the creation request was out: the label counts
\* the list of the invocation.
C18_Witness ==
    /\ SaveAllCreatedNow
    /\ last.inv.itineraries # itineraries
    /\ Get(DraftOf(storage), "title") = Str("Itinerary 1")
    /\ Truthy(Get(DraftOf(storage), "destination"))

\* C19: after a successful save the 'last saved' record holds every field of
\* the response together with an itinerary_id equal to the id the save
\* request was sent to, whatever the response carries, and the page has
\* navigated to the detail view of that id with the record written and the
\* store and the draft context cleared.
C19_LastSavedNamesTheTarget ==
    SaveAllReturned("saved")
        => LET sent == last.inv.requests[Len(last.inv.requests)]
               saved == JSONparse(storage.planit_saved_data).value
           IN /\ sent.url = SaveUrl
              /\ Get(saved, "itinerary_id") = sent.id
              /\ Get(saved, "msg") = Str("saved")
              /\ route = ItineraryRoute(sent.id)
              /\ storage.planit_pending_items = null
              /\ storage.planit_current_itinerary = null

\* C20: the stored sequence changes only in a removeAt, a Clear All, a
\* successful saveAll or an add, and an add only appends one entry; every
\* other step (search, tab switch, the modal, a selection, a failed add, a
\* failed or rejected saveAll) leaves it as it is.
C20_StoreChangesOnlyByItsOperations ==
    [][Stored(storage') # Stored(storage)
          => \/ last'.op \in {"removeAt", "clear"}
             \/ last'.op = "saveAll" /\ last'.outcome = "saved"
                   /\ Stored(storage') = <<>>
             \/ /\ last'.op = "add" /\ last'.outcome \in {"staged", "posted"}
                /\ Len(Stored(storage')) = Len(Stored(storage)) + 1
                /\ SubSeq(Stored(storage'), 1, Len(Stored(storage))) = Stored(storage)]_vars

\* An add went through the network and left two entries behind.
C20_Witness ==
    /\ last.op = "add" /\ last.outcome = "posted"
    /\ Len(Stored(storage)) = 2
    /\ pendingItems = Stored(storage)

(***************************************************************************)
(* Claims on saveAll beside the other handlers (checked under Spec)        *)
(***************************************************************************)
\* The saveAll handlers that send their save request in this step: one that
\* starts with an id selected, or one that goes on after its creation.
SendsSaveRequest(i) ==
    /\ i \in 1..Len(inflight')
    /\ inflight'[i].op = "saveAll" /\ inflight'[i].pc = "save"
    /\ \/ Len(inflight') = Len(inflight) + 1 /\ i = Len(inflight')
       \/ /\ Len(inflight') = Len(inflight)
          /\ inflight[i].op = "saveAll" /\ inflight[i].pc = "load"

SentSaveRequest(i) == inflight'[i].requests[Len(inflight'[i].requests)]

\* C24: the items submitted in a save request are the entries of the store
\* at the moment the request is sent; an entry removed after saveAll was
\* invoked and before the request is sent is not submitted.
C24_SubmitsTheStoreAsSent ==
    [][\A i \in 1..(MaxInflight + 1) :
          SendsSaveRequest(i)
              => SentSaveRequest(i).body = savePayload(Stored(storage))]_vars

\* C25: whenever no operation is in flight on the mounted page, the
\* in-memory pending list equals the content of the store, entry by entry
\* in the same order: mount, add, removeAt, Clear All and a successful
\* saveAll each leave the two equal.
C25_MemoryEqualsStore ==
    (mounted /\ inflight = <<>>)
        => (/\ HoldsSequence(storage)
            /\ pendingItems = Stored(storage))

\* One of two entries was removed, nothing is in flight, and the list shown
\* is the entry the store still holds.
C25_Witness ==
    /\ mounted /\ inflight = <<>>
    /\ last.op = "removeAt"
    /\ Len(pendingItems) = 1
    /\ pendingItems = Stored(storage)

\* The step appends one entry holding the record to the stored sequence.
AppendsOne(record) ==
    /\ HoldsSequence(storage')
    /\ Len(Stored(storage')) = Len(Stored(storage)) + 1
    /\ SubSeq(Stored(storage'), 1, Len(Stored(storage))) = Stored(storage)
    /\ Stored(storage')[Len(Stored(storage'))].data = DropUndefined(record)

\* The step suspends one more handler, an add at its post.
StartsAddPost ==
    /\ Len(inflight') = Len(inflight) + 1
    /\ inflight'[Len(inflight')].op = "add"

\* C26: confirming 'add' with no itinerary selected appends the selected
\* result to the store and sends nothing; with an itinerary selected it
\* posts the item to that itinerary's items endpoint and leaves the store
\* alone, and the item is appended when that post succeeds; when the post
\* fails the store stays as it is and an error is shown.  A confirmation
\* appends at most one entry.
C26_AddConfirmation ==
    [][/\ (last'.op = "add" /\ last'.outcome = "staged")
             => (/\ ~Truthy(selectedItineraryId)
                 /\ AppendsOne(selectedItem)
                 /\ Len(inflight') = Len(inflight))
       /\ StartsAddPost
             => (/\ Truthy(selectedItineraryId)
                 /\ inflight'[Len(inflight')].request.method = "POST"
                 /\ inflight'[Len(inflight')].request.url = "/itineraries/:id/items"
                 /\ inflight'[Len(inflight')].request.id = selectedItineraryId
                 /\ storage' = storage)
       /\ (last'.op = "add" /\ last'.outcome = "posted")
             => AppendsOne(last'.inv.selectedItem)
       /\ (last'.op = "add" /\ last'.outcome = "failed")
             => (/\ storage' = storage
                 /\ Truthy(error'))]_vars

\* The post of an add failed: the store holds what it held, the modal is
\* still open and the error is shown.
C26_Witness ==
    /\ last.op = "add" /\ last.outcome = "failed"
    /\ Len(Stored(storage)) = 1
    /\ pendingItems = Stored(storage)
    /\ showAddModal
    /\ Truthy(error)
    /\ ~adding

\* The step starts a saveAll that has something to save.
StartsSaveAll ==
    /\ Len(inflight') = Len(inflight) + 1
    /\ inflight'[Len(inflight')].op = "saveAll"

FirstListedId(list) ==
    IF Present(Get(list[1], "itinerary_id")) THEN list[1].itinerary_id
    ELSE Get(list[1], "id")

\* C28: opening the add modal while the loaded list is non-empty sets the
\* selected id to the id of the first itinerary of the list, whatever was
\* selected before, and a saveAll that follows is sent to that itinerary;
\* while the list is empty it leaves the selection as it is.
C28_OpeningTheModalSelectsTheFirst ==
    /\ [][(showAddModal' /\ ~showAddModal)
             => IF Len(itineraries) > 0
                THEN selectedItineraryId' = FirstListedId(itineraries)
                ELSE selectedItineraryId' = selectedItineraryId]_vars
    /\ [][(last.op = "openAddModal" /\ Len(itineraries) > 0 /\ StartsSaveAll)
             => LET following == inflight'[Len(inflight')]
                IN following.requests =
                       <<saveRequest(FirstListedId(itineraries), following.pendingItems)>>]_vars

\* The draft context named itinerary 1; the modal was opened and the saveAll
\* that followed goes to itinerary 2, the first of the list.
C28_Witness ==
    \E i \in InflightOf("saveAll") :
        /\ showAddModal
        /\ Len(itineraries) > 0
        /\ Get(DraftOf(inflight[i].store0), "itinerary_id") = Num(1)
        /\ inflight[i].selectedItineraryId = FirstListedId(itineraries)
        /\ inflight[i].requests[1].url = SaveUrl
        /\ inflight[i].requests[1].id = Num(2)

(***************************************************************************)
(* SpecLive: the page of Spec where the network answers: a saveAll that    *)
(* waits for a response gets one in the end.                               *)
(***************************************************************************)
\* A request of a suspended saveAll is answered.
SaveAllAnswered ==
    \E i \in 1..Len(inflight) :
        \/ SaveAllCreated(i)
        \/ SaveAllCreateFailed(i)
        \/ SaveAllListed(i)
        \/ SaveAllSaved(i)
        \/ SaveAllSaveFailed(i)

SpecLive == Spec /\ WF_vars(SaveAllAnswered)

SaveAllOutcomes == {"rejected", "create_failed", "save_failed", "saved"}

\* C30: every saveAll returns, provided its requests are answered, in one
\* of four ways (rejected for nothing to save, creation failed, save failed,
\* saved); when it has returned adding is false; and adding is true from
\* the start of an invocation that is not rejected until it returns.
C30_SaveAllReturnsAndAddingTellsIt ==
    /\ (InflightOf("saveAll") # {}) ~> (InflightOf("saveAll") = {})
    /\ [](\A i \in InflightOf("saveAll") : inflight[i].pc \in {"create", "load", "save"})
    /\ []((last.op = "saveAll" /\ last.outcome # "created")
            => (last.outcome \in SaveAllOutcomes /\ ~adding))
    /\ [](InflightOf("saveAll") # {} => adding)

(***************************************************************************)
(* SpecNormalize: normalizeAttraction (Search.tsx 155-163) applied to a    *)
(* record, and then to the record it returned.                             *)
(***************************************************************************)
\* Records with every combination of the fields normalizeAttraction reads:
\* each absent, there with a value || passes over, or there with a value.
AttractionRecords ==
    {Merge(Merge(Merge(u, i), Merge(t, p)), Merge(Merge(x, d), [name |-> Str("Louvre")])) :
        u \in FieldChoices("image_url", {Str(""), Str("a.jpg")}),
        i \in FieldChoices("image", {null, Str("b.jpg")}),
        t \in FieldChoices("thumbnail", {Str(""), Str("c.jpg")}),
        p \in FieldChoices("photo", {Str(""), Str("d.jpg")}),
        x \in FieldChoices("xid", {Str(""), Str("X1")}),
        d \in FieldChoices("id", {Num(0), Num(7)})}

NormalizeInputs == {null, undefined} \cup AttractionRecords

\* The call of normalizeAttraction(item) not yet made.
ToNormalize(item) == [item |-> item, calls |-> 0]

InitNormalize ==
    /\ \E item \in NormalizeInputs : norm = ToNormalize(item)
    /\ storage = EmptyStorage
    /\ call = NoCall
    /\ hist = Untracked
    /\ staged = <<>>
    /\ payload = null
    /\ home = null
    /\ Constructed

\* normalizeAttraction(item) is called: it returns normalized, a copy it
\* made and assigned to, and item is as it was passed.
NormalizeOnce ==
    /\ norm.calls = 0
    /\ norm' = [item |-> norm.item, calls |-> 1,
                itemAfter |-> norm.item,
                normalized |-> normalizeAttraction(norm.item)]
    /\ UNCHANGED <<storage, pageVars, storeVars, payloadVars, searchVars, home>>

\* normalizeAttraction is called on the record it returned.
NormalizeAgain ==
    /\ norm.calls = 1
    /\ norm' = [norm EXCEPT !.calls = 2,
                            !.normalized = normalizeAttraction(norm.normalized)]
    /\ UNCHANGED <<storage, pageVars, storeVars, payloadVars, searchVars, home>>

NextNormalize == NormalizeOnce \/ NormalizeAgain

SpecNormalize == InitNormalize /\ [][NextNormalize]_vars

(***************************************************************************)
(* Claims on normalizeAttraction (checked under SpecNormalize)             *)
(***************************************************************************)
\* The value of the first field of the list that is present in the record,
\* or else the value given.
RECURSIVE FirstPresent(_, _, _)
FirstPresent(record, fields, otherwise) ==
    IF fields = <<>> THEN otherwise
    ELSE IF Present(Get(record, Head(fields))) THEN record[Head(fields)]
    ELSE FirstPresent(record, Tail(fields), otherwise)

\* What C22 says of a record and of what normalizeAttraction returned for it.
NormalizedAsStated(item, normalized) ==
    /\ normalized.image_url =
           FirstPresent(item, <<"image_url", "image", "thumbnail", "photo">>, null)
    /\ (Present(Get(item, "xid")) \/ Present(Get(item, "id")))
           => normalized.xid = FirstPresent(item, <<"xid", "id">>, undefined)
    /\ DOMAIN normalized = DOMAIN item \cup Normalised
    /\ \A f \in DOMAIN item \ Normalised : normalized[f] = item[f]

\* C22: normalizeAttraction resolves image_url as the first present value
\* among image_url, image, thumbnail and photo, or null when none is present,
\* and xid as the first present value among xid and id; it leaves every other
\* field as it is and its input as it was passed, and applied to its own
\* result it returns that result.
C22_NormalizeAttractionResolvesFields ==
    /\ (norm.calls >= 1 /\ Truthy(norm.item))
          => (/\ norm.itemAfter = norm.item
              /\ NormalizedAsStated(norm.item,
                                    IF norm.calls = 1 THEN norm.normalized
                                    ELSE normalizeAttraction(norm.item)))
    /\ norm.calls = 2 => norm.normalized = normalizeAttraction(norm.item)

\* A record without image_url or xid, normalised twice: the image comes
\* from the thumbnail, past an image field that holds null, and xid from id.
C22_Witness ==
    /\ norm.calls = 2
    /\ Truthy(norm.item)
    /\ DOMAIN norm.item \cap Normalised = {}
    /\ Get(norm.item, "image") = null
    /\ norm.normalized.image_url = Str("c.jpg")
    /\ norm.normalized.xid = Num(7)

(***************************************************************************)
(* The older version of the page, kept in Home.tsx (142-649): its          *)
(* handleSaveAllToItinerary (Home.tsx 314-361).  home is the state of that *)
(* page as far as the handler reads and writes it, with the requests it    *)
(* sent and how it ended.                                                  *)
(***************************************************************************)
\* The older page in the state the Search page is in.
HomeRender ==
    [storage |-> storage, pendingItems |-> pendingItems,
     selectedItineraryId |-> selectedItineraryId, currentItinerary |-> currentItinerary,
     adding |-> adding, error |-> error, successMessage |-> successMessage,
     route |-> route, pc |-> "idle", outcome |-> "none", requests |-> <<>>,
     response |-> null, clicks |-> clicks]

\* A save request that leaves the flights out.
homeSaveRequestItemsOnly(selected, pending) ==
    [method |-> "POST", url |-> "/itineraries/:id/save", id |-> selected,
     body |-> [flights |-> <<>>, items |-> payloadItems(pending)]]

\* api.post(`/itineraries/${selectedItineraryId}/save`, { flights, items })
\* (Home.tsx 329-339)
homeSaveRequest(selected, pending) ==
    [method |-> "POST", url |-> "/itineraries/:id/save", id |-> selected,
     body |-> [flights |-> payloadFlights(pending), items |-> payloadItems(pending)]]

\* handleSaveAllToItinerary() of Home.tsx up to its await (314-339).
homeHandleSaveAllToItinerary(h) ==
    IF Len(h.pendingItems) = 0
    THEN [h EXCEPT !.error = Str("No pending items to save"),
                   !.pc = "done", !.outcome = "rejected"]
    ELSE IF ~Truthy(h.selectedItineraryId)
    THEN [h EXCEPT !.error = Str("Please select an itinerary first"),
                   !.pc = "done", !.outcome = "no_itinerary"]
    ELSE [h EXCEPT !.adding = TRUE, !.error = Str(""), !.pc = "save",
                   !.requests = <<homeSaveRequest(h.selectedItineraryId, h.pendingItems)>>]

\* After its await, the save request having succeeded (Home.tsx 341-351,
\* 358-360).
homeSaved(h, data) ==
    [h EXCEPT
        !.storage = [clearPendingItems(h.storage) EXCEPT
                        !.planit_saved_data =
                            JSONstringifyObject(
                                Merge(data, [itinerary_id |-> h.selectedItineraryId])),
                        !.planit_current_itinerary = null],
        !.pendingItems = <<>>,
        !.currentItinerary = null,
        !.successMessage = Str("All items saved to itinerary!"),
        !.route = ItineraryRoute(h.selectedItineraryId),
        !.adding = FALSE,
        !.pc = "done", !.outcome = "saved",
        !.response = [ok |-> TRUE, data |-> data]]

\* After its await, the save request having failed (Home.tsx 352-360).
homeSaveFailed(h, msg) ==
    [h EXCEPT !.error = Or(msg, Str("Failed to save items")),
              !.adding = FALSE,
              !.pc = "done", !.outcome = "save_failed",
              !.response = [ok |-> FALSE, msg |-> msg]]

(***************************************************************************)
(* SpecVersions: the two versions of saveAll side by side.  The older      *)
(* handler is called in the state the Search page is in and the handler of *)
(* Search.tsx right after it, in that same state; a response of the save   *)
(* request is given to the older handler and then, the same, to the newer. *)
(* One saveAll runs at a time and nothing else writes what is staged.      *)
(***************************************************************************)
\* The older handler has run and the newer one has not yet.
HomeAhead == home # null /\ home.clicks = clicks

\* The older handler has its response; the newer one is still waiting for it.
HomeAnswered ==
    /\ home # null /\ home.response # null
    /\ \E i \in InflightOf("saveAll") : ~inflight[i].created

\* Neither version is in the middle of a saveAll.
VersionsIdle ==
    /\ ~HomeAhead
    /\ home # null => home.pc # "save"
    /\ InflightOf("saveAll") = {}

HomeSaveAll ==
    /\ PageShown
    /\ clicks < MaxClicks
    /\ Len(inflight) < MaxInflight
    /\ InflightOf("saveAll") = {}
    /\ ~HomeAhead
    /\ home' = homeHandleSaveAllToItinerary(HomeRender)
    /\ UNCHANGED <<storage, pageVars, storeVars, payloadVars, searchVars, norm>>

HomeSaveAllSaved(data) ==
    /\ home # null /\ home.pc = "save"
    /\ ~HomeAhead
    /\ home' = homeSaved(home, data)
    /\ UNCHANGED <<storage, pageVars, storeVars, payloadVars, searchVars, norm>>

HomeSaveAllSaveFailed(msg) ==
    /\ home # null /\ home.pc = "save"
    /\ ~HomeAhead
    /\ home' = homeSaveFailed(home, msg)
    /\ UNCHANGED <<storage, pageVars, storeVars, payloadVars, searchVars, norm>>

NextVersions ==
    \/ Mount
    \/ \E i \in 1..Len(inflight) : LoadItinerariesReturns(i)
    \/ VersionsIdle /\ \E value \in SelectOptions : selectItinerary(value)
    \/ HomeSaveAll
    \/ HomeAhead /\ handleSaveAllToItinerary
    \/ \E data \in SaveResponses : HomeSaveAllSaved(data)
    \/ \E msg \in ErrorMessages : HomeSaveAllSaveFailed(msg)
    \/ \E i \in 1..Len(inflight) :
          HomeAnswered /\ home.response.ok /\ SaveAllSavedWith(i, home.response.data)
    \/ \E i \in 1..Len(inflight) :
          HomeAnswered /\ ~home.response.ok /\ SaveAllSaveFailedWith(i, home.response.msg)
    \/ \E i \in 1..Len(inflight) : SaveAllCreated(i)
    \/ \E i \in 1..Len(inflight) : SaveAllCreateFailed(i)
    \/ \E i \in 1..Len(inflight) : SaveAllListed(i)
    \/ \E i \in 1..Len(inflight) : inflight[i].op = "saveAll" /\ inflight[i].created
                                       /\ SaveAllSaved(i)
    \/ \E i \in 1..Len(inflight) : inflight[i].op = "saveAll" /\ inflight[i].created
                                       /\ SaveAllSaveFailed(i)

SpecVersions == Init /\ [][NextVersions]_vars

(***************************************************************************)
(* Claims on the two versions (checked under SpecVersions)                 *)
(***************************************************************************)
\* What the two pages show and hold is the same.
SameState ==
    /\ home.storage = storage
    /\ home.pendingItems = pendingItems
    /\ home.currentItinerary = currentItinerary
    /\ home.selectedItineraryId = selectedItineraryId
    /\ home.adding = adding
    /\ home.error = error
    /\ home.successMessage = successMessage
    /\ home.route = route

\* C21: the two versions of saveAll agree whenever an itinerary id is
\* selected: on the same staged items, selected id and responses they send
\* the same save request and end the same way in the same store, draft
\* context and last-saved record.  With no id selected and something to
\* save, the older version rejects with 'Please select an itinerary first'
\* and sends nothing, and the newer one sends a creation request.
C21_VersionsAgreeWhenSelected ==
    (home # null /\ ~HomeAhead) =>
        /\ \A i \in InflightOf("saveAll") :
              Truthy(inflight[i].selectedItineraryId)
                  => /\ home.requests = inflight[i].requests
                     /\ home.pc = "save" => SameState
        /\ (last.op = "saveAll" /\ Truthy(last.inv.selectedItineraryId))
              => /\ home.outcome = last.outcome
                 /\ home.requests = last.inv.requests
                 /\ SameState
        /\ \A inv \in SaveAllInvocations :
              (~Truthy(inv.selectedItineraryId) /\ inv.pendingItems # <<>>)
                  => /\ home.outcome = "no_itinerary"
                     /\ home.error = Str("Please select an itinerary first")
                     /\ home.requests = <<>>
                     /\ home.storage = inv.store0
                     /\ inv.requests[1].url \in CreationUrls
                     /\ inv.requests[1].method = "POST"

\* Both saved a flight and a hotel to the selected itinerary, on a response
\* that carries an id of its own.
C21_Witness ==
    /\ home # null /\ home.outcome = "saved"
    /\ SaveAllReturned("saved")
    /\ Len(last.inv.pendingItems) = 2
    /\ Get(home.response.data, "itinerary_id") = Num(99)
    /\ home.storage.planit_saved_data # null
    /\ storage = home.storage

====
